---- MODULE Spec2Model ----
(***************************************************************************)
(* Verification model of the heating_pid control core:                     *)
(*   - PIDController            (custom_components/ems_zone_master/pid.py) *)
(*   - HeaterController         (heating_pid/heater_controller.py)         *)
(*   - ValveManager             (heating_pid/valve_manager.py)             *)
(*   - EmsZoneMasterCoordinator (heating_pid/coordinator.py)               *)
(*                                                                         *)
(* Units.  Time is in whole seconds.  The PID controller is unit-agnostic  *)
(* and is modelled over the integers.  In the heater controller and the    *)
(* coordinator temperatures are in tenths of a degree Celsius, demand is   *)
(* in percent.  Python floats are modelled by integers; a float division   *)
(* is the integer division of the same operands.                           *)
(***************************************************************************)
EXTENDS Integers, Sequences, FiniteSets, TLC

VARIABLES
    pid,        \* a PIDController: gains, integral, last_pv, last_time, last_output
    pid_op,     \* the last operation on pid: "init", "update", "reset", "set_gains"
    pid_call,   \* arguments and intermediate values of the last update() call
    heater,     \* a HeaterController: configuration and runtime state
    hc_now,     \* the wall clock of the heater controller's callers (seconds)
    hc_op,      \* the last operation on heater: "init", "calculate", "set_flow"
    hc_call,    \* arguments and result of the last calculate_target_flow_temp()
    vmgr,       \* a ValveManager: min_on_time, min_off_time (minutes)
    valve,      \* one valve: its entity and the timestamps its zone keeps
    vm_now,     \* the wall clock of the valve manager's callers (seconds)
    vm_op,      \* the last operation on the valve: "init", "set_valve_state"
    vm_call,    \* arguments and service calls of the last set_valve_state()
    co,         \* the coordinator: configuration and runtime fields
    zones,      \* the coordinator's ZoneState objects, by zone name
    co_now,     \* the wall clock of the coordinator (seconds since a midnight)
    co_op,      \* the last operation: "init", "tick", "set_temperature"
    tick,       \* the last full tick: its inputs, whether it raised, and the
                \* zone fields it started from
    pid_twin,   \* a second PIDController, fed the same calls as pid
    sreader,    \* an ems_zone_master ScheduleReader and its schedule entity
    sr_op,      \* the last operation on sreader: "init", "edit", "query"
    sr_call,    \* the time and the results of the last queries of sreader
    maint,      \* valve maintenance: the cycles in progress per zone and the
                \* last force_valve_maintenance call
    debouncer,  \* the StateDebouncer of the window sensors and the sensors
    inflight,   \* the full tick that is suspended at an await, if any
    store,      \* the persisted data of the config entry (EmsZoneMasterStore)
    hvac_request, \* the HVAC mode last requested of each zone's climate entity
    dt_log      \* per zone, the dt values its PID controller has been passed

pidVars == <<pid, pid_op, pid_call>>

heaterVars == <<heater, hc_now, hc_op, hc_call>>

valveVars == <<vmgr, valve, vm_now, vm_op, vm_call>>

coVars == <<co, zones, co_now, co_op, tick>>

srVars == <<sreader, sr_op, sr_call>>

\* what only the specifications of the climate entity's services and of the
\* event-driven updates drive
auxVars == <<hvac_request, dt_log>>

\* what only the specifications of background work and persistence drive
extVars == <<maint, debouncer, inflight, store, auxVars>>

vars == <<pidVars, heaterVars, valveVars, coVars, pid_twin, srVars, extVars>>

\* what a step on the PID controller alone leaves unchanged
NotPidVars == <<heaterVars, valveVars, coVars, pid_twin, srVars, extVars>>

\* what a step on the heater controller alone leaves unchanged
NotHeaterVars == <<pidVars, valveVars, coVars, pid_twin, srVars, extVars>>

\* what a step on the valve manager alone leaves unchanged
NotValveVars == <<pidVars, heaterVars, coVars, pid_twin, srVars, extVars>>

\* what a step of the coordinator leaves unchanged besides its own fields,
\* its HeaterController (heater) and its ValveManager (vmgr)
NotCoVars ==
    <<pidVars, hc_now, hc_op, hc_call, valve, vm_now, vm_op, vm_call, pid_twin, srVars>>

\* what a step on the schedule reader alone leaves unchanged
NotSrVars == <<pidVars, heaterVars, valveVars, coVars, pid_twin, extVars>>

\* the value of a variable whose component a specification does not instantiate
NotInstantiated == "not instantiated"

\* Python's None (an integer outside every value range used by the model).
None == 0 - 1000000

Min(a, b) == IF a < b THEN a ELSE b

Max(a, b) == IF a > b THEN a ELSE b

(***************************************************************************)
(* PIDController                                                           *)
(***************************************************************************)

MIN_OUTPUT == 0

MAX_OUTPUT == 100

\* reference temperature of the outdoor compensation
REFERENCE_TEMP == 15

\* PIDController.__init__: the state of a fresh controller with the given gains
PIDNew(kp, ki, kd, ke) ==
    [kp |-> kp, ki |-> ki, kd |-> kd, ke |-> ke,
     integral |-> 0, last_pv |-> None, last_time |-> None, last_output |-> 0]

\* a time delta that is always read from the monotonic clock
PIDDtFromClock(p, dt, current_time) ==
    IF p.last_time = None THEN 0 ELSE current_time - p.last_time

\* update(): "Calculate time delta"
PIDDt(p, dt, current_time) ==
    IF dt = None
    THEN IF p.last_time = None THEN 0 ELSE current_time - p.last_time
    ELSE dt

\* update(): the output the anti-windup test looks at
PIDPotentialOutput(p, error, dt) ==
    p.kp * error + p.ki * (p.integral + error * dt)

\* an integral that is committed whenever dt > 0
PIDIntegralAlways(p, error, dt) ==
    IF dt > 0 THEN p.integral + error * dt ELSE p.integral

\* update(): "Integral term with anti-windup": the integral after the call
PIDIntegral(p, error, dt) ==
    IF dt > 0
    THEN LET potential_integral == p.integral + error * dt
             potential_output   == PIDPotentialOutput(p, error, dt)
         IN  IF MIN_OUTPUT < potential_output /\ potential_output < MAX_OUTPUT
             THEN potential_integral
             ELSE IF potential_output >= MAX_OUTPUT /\ error < 0
             THEN potential_integral
             ELSE IF potential_output <= MIN_OUTPUT /\ error > 0
             THEN potential_integral
             ELSE p.integral
    ELSE p.integral

\* update(): "Derivative term (on process variable, not error)"
PIDDerivative(p, process_variable, dt) ==
    IF p.last_pv # None /\ dt > 0
    THEN (0 - p.kd * (process_variable - p.last_pv)) \div dt
    ELSE 0

\* update(): "Apply outdoor compensation"
PIDCompensate(p, output, outdoor_temp) ==
    IF outdoor_temp # None /\ p.ke > 0 /\ outdoor_temp < REFERENCE_TEMP
    THEN output * (1 + p.ke * (REFERENCE_TEMP - outdoor_temp))
    ELSE output

\* update(): the output before clamping
PIDRawOutput(p, setpoint, process_variable, outdoor_temp, dt) ==
    LET error  == setpoint - process_variable
        p_term == p.kp * error
        i_term == p.ki * PIDIntegral(p, error, dt)
        d_term == PIDDerivative(p, process_variable, dt)
    IN  PIDCompensate(p, p_term + i_term + d_term, outdoor_temp)

\* the output without the limits of update()
ClampNone(output) == output

\* update(): "Clamp output"
Clamp(output) == Max(MIN_OUTPUT, Min(MAX_OUTPUT, output))

\* PIDController.update: the controller state after the call; the returned
\* output is its last_output field
PIDUpdate(p, setpoint, process_variable, outdoor_temp, dt_arg, current_time) ==
    LET dt == PIDDt(p, dt_arg, current_time)
    IN  [p EXCEPT
            !.integral    = PIDIntegral(p, setpoint - process_variable, dt),
            !.last_pv     = process_variable,
            !.last_time   = current_time,
            !.last_output = Clamp(PIDRawOutput(p, setpoint, process_variable,
                                               outdoor_temp, dt))]

\* PIDController.reset
PIDReset(p) ==
    [p EXCEPT !.integral = 0, !.last_pv = None, !.last_time = None,
              !.last_output = 0]

\* PIDController.set_gains: a None argument keeps the current gain
PIDSetGains(p, kp, ki, kd, ke) ==
    [p EXCEPT !.kp = IF kp # None THEN kp ELSE p.kp,
              !.ki = IF ki # None THEN ki ELSE p.ki,
              !.kd = IF kd # None THEN kd ELSE p.kd,
              !.ke = IF ke # None THEN ke ELSE p.ke]

(***************************************************************************)
(* HeaterController                                                        *)
(***************************************************************************)

\* const.py: delta-T threshold for cooldown mode, 5.0 degrees, in tenths
MIN_EFFICIENT_DELTA_T == 50

\* HeaterController.__init__ defaults the coordinator does not override
DEFAULT_IGNITION_HYSTERESIS == 5

\* 2.0 degrees, in tenths
DEFAULT_COOLDOWN_HYSTERESIS == 20

\* minutes
DEFAULT_MIN_BURNER_RUNTIME == 5

\* minutes
DEFAULT_MIN_BURNER_OFF_TIME == 3

\* HeaterController.__init__
HeaterNew(min_egress, max_egress, min_ignition_level, quiet_mode_max_flow, quiet_mode_ramp_minutes) ==
    [min_egress |-> min_egress, max_egress |-> max_egress,
     min_ignition_level |-> min_ignition_level,
     quiet_mode_max_flow |-> quiet_mode_max_flow,
     quiet_mode_ramp_minutes |-> quiet_mode_ramp_minutes,
     ignition_hysteresis |-> DEFAULT_IGNITION_HYSTERESIS,
     cooldown_hysteresis |-> DEFAULT_COOLDOWN_HYSTERESIS,
     min_burner_runtime |-> DEFAULT_MIN_BURNER_RUNTIME,
     min_burner_off_time |-> DEFAULT_MIN_BURNER_OFF_TIME,
     heater_was_active |-> FALSE, cooldown_active |-> FALSE,
     burner_started_at |-> None, burner_stopped_at |-> None]

\* a cooldown check that does not ask whether the heater was active
CheckCooldownAnyHeater(h, flow_temp, return_temp, max_demand, heater_was_active) ==
    IF flow_temp = None \/ return_temp = None
    THEN FALSE
    ELSE LET delta_t == flow_temp - return_temp
             boiler_is_responding == flow_temp >= h.min_egress
         IN  IF h.cooldown_active
             THEN ~(delta_t >= MIN_EFFICIENT_DELTA_T + h.cooldown_hysteresis)
             ELSE /\ boiler_is_responding
                  /\ delta_t < MIN_EFFICIENT_DELTA_T
                  /\ max_demand > 0

\* HeaterController._check_cooldown
CheckCooldown(h, flow_temp, return_temp, max_demand, heater_was_active) ==
    IF flow_temp = None \/ return_temp = None
    THEN FALSE
    ELSE LET delta_t == flow_temp - return_temp
             boiler_is_responding == flow_temp >= h.min_egress
         IN  IF h.cooldown_active
             THEN ~(delta_t >= MIN_EFFICIENT_DELTA_T + h.cooldown_hysteresis)
             ELSE /\ heater_was_active
                  /\ boiler_is_responding
                  /\ delta_t < MIN_EFFICIENT_DELTA_T
                  /\ max_demand > 0

\* HeaterController._get_effective_max_flow
GetEffectiveMaxFlow(h, quiet_mode_active, first_block_start_time, now) ==
    IF ~quiet_mode_active \/ first_block_start_time = None
    THEN h.max_egress
    ELSE LET seconds_since_start == now - first_block_start_time
             ramp_seconds == h.quiet_mode_ramp_minutes * 60
             quiet_max == Max(h.quiet_mode_max_flow, h.min_egress)
         IN  \* ramp_progress = min(1.0, minutes_since_start / ramp_minutes)
             IF seconds_since_start >= ramp_seconds
             THEN quiet_max + (h.max_egress - quiet_max)
             ELSE quiet_max
                  + (seconds_since_start * (h.max_egress - quiet_max)) \div ramp_seconds

\* calculate_target_flow_temp: "Check minimum runtime constraints"
BurnerShouldStayOn(h, now) ==
    /\ h.burner_started_at # None
    /\ now - h.burner_started_at < h.min_burner_runtime * 60

BurnerShouldStayOff(h, now) ==
    /\ h.burner_stopped_at # None
    /\ now - h.burner_stopped_at < h.min_burner_off_time * 60

\* calculate_target_flow_temp: "(now - self._burner_started_at)" subtracts the
\* naive datetime.now() stored by set_flow_temperature from the caller's now;
\* Python raises TypeError when now is timezone-aware
TimestampMismatch(h, now_aware) ==
    now_aware /\ (h.burner_started_at # None \/ h.burner_stopped_at # None)

\* calculate_target_flow_temp: "Determine effective ignition threshold"
EffectiveIgnition(h) ==
    IF h.heater_was_active
    THEN h.min_ignition_level - h.ignition_hysteresis
    ELSE h.min_ignition_level

\* calculate_target_flow_temp: should_be_off
ShouldBeOff(h, max_demand, cooldown_active, now) ==
    \/ max_demand < EffectiveIgnition(h)
    \/ cooldown_active
    \/ BurnerShouldStayOff(h, now)

\* an ignition test that excludes the threshold itself
ShouldBeOnStrict(h, max_demand, cooldown_active) ==
    max_demand > h.min_ignition_level /\ ~cooldown_active

\* calculate_target_flow_temp: should_be_on
ShouldBeOn(h, max_demand, cooldown_active) ==
    max_demand >= h.min_ignition_level /\ ~cooldown_active

\* a curve that scales the maximum itself, not its distance from min_egress
DemandCurveNoOffset(h, max_demand, effective_max) ==
    h.min_egress + (max_demand * effective_max) \div 100

\* calculate_target_flow_temp: the demand curve
DemandCurve(h, max_demand, effective_max) ==
    h.min_egress + (max_demand * (effective_max - h.min_egress)) \div 100

\* calculate_target_flow_temp: the target temperature of a call that returns
TargetTemp(h, max_demand, cooldown_active, quiet_mode_active, first_block_start_time, now) ==
    IF ShouldBeOff(h, max_demand, cooldown_active, now) /\ ~BurnerShouldStayOn(h, now)
    THEN 0
    ELSE IF /\ ShouldBeOn(h, max_demand, cooldown_active) \/ BurnerShouldStayOn(h, now)
            /\ ~BurnerShouldStayOff(h, now)
    THEN DemandCurve(h, max_demand,
                     GetEffectiveMaxFlow(h, quiet_mode_active,
                                         first_block_start_time, now))
    ELSE 0

\* HeaterController.calculate_target_flow_temp: [raised, target, cooldown_active,
\* heater], heater being the controller after the call.  _cooldown_active is
\* assigned before the subtraction that can raise.
CalculateTargetFlowTemp(h, max_demand, flow_temp, return_temp, quiet_mode_active, first_block_start_time, now, now_aware) ==
    LET cooldown_active == CheckCooldown(h, flow_temp, return_temp, max_demand,
                                         h.heater_was_active)
        h2 == [h EXCEPT !.cooldown_active = cooldown_active]
    IN  IF TimestampMismatch(h, now_aware)
        THEN [raised |-> TRUE, target |-> None, cooldown_active |-> cooldown_active,
              heater |-> h2]
        ELSE [raised |-> FALSE,
              target |-> TargetTemp(h, max_demand, cooldown_active,
                                    quiet_mode_active, first_block_start_time, now),
              cooldown_active |-> cooldown_active,
              heater |-> h2]

\* HeaterController.set_flow_temperature; wall_now is datetime.now()
SetFlowTemperature(h, temperature, wall_now) ==
    LET burner_is_active == temperature > 0
    IN  [h EXCEPT
            !.burner_started_at =
                IF burner_is_active /\ ~h.heater_was_active THEN wall_now
                ELSE IF ~burner_is_active /\ h.heater_was_active THEN None
                ELSE h.burner_started_at,
            !.burner_stopped_at =
                IF burner_is_active /\ ~h.heater_was_active THEN None
                ELSE IF ~burner_is_active /\ h.heater_was_active THEN wall_now
                ELSE h.burner_stopped_at,
            !.heater_was_active = burner_is_active]

(***************************************************************************)
(* ValveManager (valve_manager.py).  Time in seconds; min_on_time and      *)
(* min_off_time in minutes as configured.                                  *)
(***************************************************************************)

\* const.py DEFAULT_VALVE_MIN_ON_TIME (minutes)
DEFAULT_VALVE_MIN_ON_TIME == 5

\* const.py DEFAULT_VALVE_MIN_OFF_TIME (minutes)
DEFAULT_VALVE_MIN_OFF_TIME == 5

\* ValveManager.__init__
ValveManagerNew(min_on_time, min_off_time) ==
    [min_on_time |-> min_on_time, min_off_time |-> min_off_time]

\* a zone's valve: the entity (domain, state; "none" when hass.states.get
\* returns None) and the ZoneState fields valve_opened_at, valve_closed_at,
\* last_valve_activity
ValveNew(domain, state) ==
    [domain |-> domain, state |-> state, valve_opened_at |-> None,
     valve_closed_at |-> None, last_valve_activity |-> None]

\* hass.services.async_call through _safe_service_call: the entity's state
\* after the call; a failed call is logged and changes nothing
ServiceCall(state, service, ok) ==
    IF ~ok THEN state
    ELSE IF service = "switch.turn_on" THEN "on"
    ELSE IF service = "switch.turn_off" THEN "off"
    ELSE IF service = "climate.set_hvac_mode.heat" THEN "heat"
    ELSE IF service = "climate.set_hvac_mode.off" THEN "off"
    ELSE state

\* the minimum off-time test made before opening
OpenSuppressed(m, v, now) ==
    /\ v.valve_closed_at # None
    /\ m.min_off_time > 0
    /\ now - v.valve_closed_at < m.min_off_time * 60

\* a manager without the minimum on-time
CloseSuppressedNever(m, v, now) == FALSE

\* the minimum on-time test made before closing
CloseSuppressed(m, v, now) ==
    /\ v.valve_opened_at # None
    /\ m.min_on_time > 0
    /\ now - v.valve_opened_at < m.min_on_time * 60

\* _control_switch_valve
ControlSwitchValve(m, v, should_open, now, ok) ==
    LET is_on == v.state = "on"
        idle == [valve |-> [v EXCEPT !.last_valve_activity = now],
                 commands |-> <<>>]
    IN  IF should_open /\ ~is_on
        THEN IF OpenSuppressed(m, v, now)
             THEN idle
             ELSE [valve |-> [v EXCEPT
                                !.state = ServiceCall(@, "switch.turn_on", ok),
                                !.valve_opened_at = now,
                                !.last_valve_activity = now],
                   commands |-> <<"switch.turn_on">>]
        ELSE IF ~should_open /\ is_on
        THEN IF CloseSuppressed(m, v, now)
             THEN idle
             ELSE [valve |-> [v EXCEPT
                                !.state = ServiceCall(@, "switch.turn_off", ok),
                                !.valve_closed_at = now,
                                !.last_valve_activity = now],
                   commands |-> <<"switch.turn_off">>]
        ELSE idle

\* _control_climate_valve
ControlClimateValve(m, v, should_open, now, ok) ==
    LET current_mode == v.state
        idle == [valve |-> [v EXCEPT !.last_valve_activity = now],
                 commands |-> <<>>]
    IN  IF should_open
        THEN IF current_mode # "heat"
             THEN IF OpenSuppressed(m, v, now)
                  THEN idle
                  ELSE [valve |-> [v EXCEPT
                                     !.state = ServiceCall(@, "climate.set_hvac_mode.heat", ok),
                                     !.valve_opened_at = now,
                                     !.last_valve_activity = now],
                        commands |-> <<"climate.set_hvac_mode.heat",
                                       "climate.set_temperature">>]
             ELSE [valve |-> [v EXCEPT !.last_valve_activity = now],
                   commands |-> <<"climate.set_temperature">>]
        ELSE IF current_mode \notin {"off", "unavailable"}
        THEN IF CloseSuppressed(m, v, now)
             THEN idle
             ELSE [valve |-> [v EXCEPT
                                !.state = ServiceCall(@, "climate.set_hvac_mode.off", ok),
                                !.valve_closed_at = now,
                                !.last_valve_activity = now],
                   commands |-> <<"climate.set_hvac_mode.off">>]
        ELSE idle

\* a set_valve_state that passes should_open on whatever cooldown_active is
SetValveStateUngated(m, v, should_open_arg, cooldown_active, now, ok) ==
    IF v.state = "none"
    THEN [valve |-> [v EXCEPT !.last_valve_activity = now], commands |-> <<>>]
    ELSE IF v.domain = "switch"
    THEN ControlSwitchValve(m, v, should_open_arg, now, ok)
    ELSE IF v.domain = "climate"
    THEN ControlClimateValve(m, v, should_open_arg, now, ok)
    ELSE [valve |-> [v EXCEPT !.last_valve_activity = now], commands |-> <<>>]

\* set_valve_state
SetValveState(m, v, should_open_arg, cooldown_active, now, ok) ==
    LET should_open == IF should_open_arg /\ cooldown_active THEN FALSE
                       ELSE should_open_arg
    IN  IF v.state = "none"
        THEN [valve |-> [v EXCEPT !.last_valve_activity = now], commands |-> <<>>]
        ELSE IF v.domain = "switch"
        THEN ControlSwitchValve(m, v, should_open, now, ok)
        ELSE IF v.domain = "climate"
        THEN ControlClimateValve(m, v, should_open, now, ok)
        ELSE [valve |-> [v EXCEPT !.last_valve_activity = now], commands |-> <<>>]

(***************************************************************************)
(* ScheduleReader (schedule.py).  A schedule entity is read as a record:   *)
(* state ("on", "off", or "none" when the entity does not exist), the      *)
(* temp attribute, the next_event attribute (absolute seconds), the        *)
(* temperature of the block that starts at next_event (known to the        *)
(* schedule, not exposed by the entity's attributes), and the first block  *)
(* of today's schedule data <<from, to>> as seconds of the day.            *)
(***************************************************************************)

\* an attribute value that does not parse as a number
Invalid == 0 - 999999

\* no block in today's schedule data, or no schedule data at all
NoBlock == <<None, None>>

SecondsPerDay == 24 * 3600

ScheduleEntity(state, temp, next_event, next_temp, first_block) ==
    [state |-> state, temp |-> temp, next_event |-> next_event,
     next_temp |-> next_temp, first_block |-> first_block]

\* the entity of a zone without a schedule: never read
NoSchedule == ScheduleEntity("none", None, None, None, NoBlock)

\* _parse_temperature
ParseTemperature(value) ==
    IF value = None \/ value = Invalid THEN None ELSE value

\* ScheduleReader.is_schedule_active
IsScheduleActive(s) == s.state # "none" /\ s.state = "on"

\* ScheduleReader.get_current_setpoint
GetCurrentSetpoint(s, default_setpoint) ==
    IF s.state = "none" \/ s.state # "on"
    THEN default_setpoint
    ELSE IF s.temp # None /\ ParseTemperature(s.temp) # None
    THEN ParseTemperature(s.temp)
    ELSE default_setpoint

\* ScheduleReader.get_time_to_next_active (seconds, or None)
GetTimeToNextActive(s, now) ==
    IF s.state = "none" THEN None
    ELSE IF s.state = "on" THEN 0
    ELSE IF s.next_event = None THEN None
    ELSE IF s.next_event > now THEN s.next_event - now
    ELSE 0

\* ScheduleReader.get_next_block_setpoint (the synchronous version the
\* coordinator calls)
GetNextBlockSetpoint(s) ==
    IF s.state = "none" THEN None
    ELSE IF s.state = "on" /\ s.temp # None THEN ParseTemperature(s.temp)
    ELSE None

\* datetime.time() of a wall-clock reading
TimeOfDay(now) == now % SecondsPerDay

\* datetime.date() of a wall-clock reading, as a day number
DateOf(now) == now \div SecondsPerDay

\* ScheduleReader._is_in_first_block
IsInFirstBlock(s, now) ==
    IF s.first_block = NoBlock
    THEN FALSE
    ELSE LET from_time == s.first_block[1]
             to_time == s.first_block[2]
             current_time == TimeOfDay(now)
         IN  \/ from_time <= current_time /\ current_time < to_time
             \/ /\ from_time > to_time
                /\ (current_time >= from_time \/ current_time < to_time)

\* ScheduleReader.is_first_block_of_day_async
IsFirstBlockOfDay(s, now) ==
    IF s.state = "none" \/ s.state # "on" THEN FALSE
    ELSE IsInFirstBlock(s, now)

\* ScheduleReader.get_first_block_start_time_async
GetFirstBlockStartTime(s, now) ==
    IF s.first_block = NoBlock THEN None
    ELSE DateOf(now) * SecondsPerDay + s.first_block[1]

(***************************************************************************)
(* ScheduleReader of ems_zone_master/schedule.py: the reader that parses   *)
(* the weekly blocks of the schedule entity.  A reader is a record: exists *)
(* (the schedule entity is in the state machine), week (for each weekday   *)
(* 0 = Monday .. 6 = Sunday the list of its blocks <<from, to, temp>>:     *)
(* from and to in seconds of the day, None for a time string _parse_time   *)
(* rejects; temp the data["temp"] of the block, None when it has none,     *)
(* read by heating_pid/schedule.py only), and the two setpoints.  A        *)
(* datetime is a number of seconds since a Monday 00:00.                   *)
(***************************************************************************)

\* ems_zone_master get_time_to_next_active: "for day_offset in range(7)"
EMS_SEARCH_DAYS == 7

\* ScheduleReader.__init__ and the blocks of its schedule entity
EmsReaderNew(week, default_setpoint, active_setpoint) ==
    [exists |-> TRUE, week |-> week, default_setpoint |-> default_setpoint,
     active_setpoint |-> active_setpoint]

\* datetime.weekday()
Weekday(now) == (now \div SecondsPerDay) % 7

\* "if from_time is None or to_time is None: continue"
EmsBlockValid(b) == b[1] # None /\ b[2] # None

\* a containment test that includes the end of a same-day block
EmsInBlockEndInclusive(b, check_time) ==
    \/ b[1] <= check_time /\ check_time <= b[2]
    \/ b[1] > b[2] /\ (check_time >= b[1] \/ check_time < b[2])

\* _is_time_in_schedule: the two tests on one block
EmsInBlock(b, check_time) ==
    \/ b[1] <= check_time /\ check_time < b[2]
    \/ b[1] > b[2] /\ (check_time >= b[1] \/ check_time < b[2])

\* ScheduleReader._is_time_in_schedule
EmsIsTimeInSchedule(r, now) ==
    LET day_schedule == r.week[Weekday(now)]
    IN  \E i \in 1..Len(day_schedule) :
            /\ EmsBlockValid(day_schedule[i])
            /\ EmsInBlock(day_schedule[i], TimeOfDay(now))

\* ScheduleReader._get_block_temperature of heating_pid/schedule.py
GetBlockTemperature(week, default_setpoint, now) ==
    LET day_schedule == week[Weekday(now)]
        inside == {i \in 1..Len(day_schedule) :
                     /\ EmsBlockValid(day_schedule[i])
                     /\ EmsInBlock(day_schedule[i], TimeOfDay(now))}
        first == CHOOSE i \in inside : \A k \in inside : i <= k
    IN  IF inside = {} THEN None
        ELSE IF day_schedule[first][3] # None THEN day_schedule[first][3]
        ELSE default_setpoint

\* ScheduleReader.get_current_setpoint
EmsGetCurrentSetpoint(r, now) ==
    IF ~r.exists THEN r.default_setpoint
    ELSE IF EmsIsTimeInSchedule(r, now) THEN r.active_setpoint
    ELSE r.default_setpoint

\* ScheduleReader.is_schedule_active
EmsIsScheduleActive(r, now) == EmsGetCurrentSetpoint(r, now) = r.active_setpoint

\* ScheduleEvent
ScheduleEvent(time, setpoint, is_active) ==
    [time |-> time, setpoint |-> setpoint, is_active |-> is_active]

\* the None a function returns in place of a ScheduleEvent
NoEvent == ScheduleEvent(None, None, FALSE)

\* _parse_schedule_events: the events of the blocks, in block order
RECURSIVE EmsBlockEvents(_, _)
EmsBlockEvents(r, blocks) ==
    IF blocks = <<>> THEN <<>>
    ELSE LET b == Head(blocks)
             rest == EmsBlockEvents(r, Tail(blocks))
         IN  IF ~EmsBlockValid(b) THEN rest
             ELSE <<ScheduleEvent(b[1], r.active_setpoint, TRUE)>>
                  \o (IF b[2] > b[1]
                      THEN <<ScheduleEvent(b[2], r.default_setpoint, FALSE)>>
                      ELSE <<>>)
                  \o rest

\* list.sort(key=lambda e: e.time): stable, ascending
RECURSIVE SortByTime(_)
SortByTime(events) ==
    IF events = <<>> THEN <<>>
    ELSE LET n == Len(events)
             e == events[n]
             sorted == SortByTime(SubSeq(events, 1, n - 1))
             k == Cardinality({i \in 1..Len(sorted) : sorted[i].time <= e.time})
         IN  SubSeq(sorted, 1, k) \o <<e>> \o SubSeq(sorted, k + 1, Len(sorted))

\* ScheduleReader._parse_schedule_events
EmsParseScheduleEvents(r, date) ==
    SortByTime(EmsBlockEvents(r, r.week[Weekday(date)]))

\* ScheduleReader.get_next_event
EmsGetNextEvent(r, now) ==
    LET events == EmsParseScheduleEvents(r, now)
        later == {i \in 1..Len(events) : events[i].time > TimeOfDay(now)}
        tomorrow_events == EmsParseScheduleEvents(r, now + SecondsPerDay)
    IN  IF ~r.exists THEN NoEvent
        ELSE IF events = <<>> THEN NoEvent
        ELSE IF later # {}
        THEN events[CHOOSE i \in later : \A k \in later : i <= k]
        ELSE IF tomorrow_events # <<>> THEN tomorrow_events[1]
        ELSE NoEvent

\* get_time_to_next_active: the loop from day_offset on
RECURSIVE EmsTimeToNextActiveFrom(_, _, _)
EmsTimeToNextActiveFrom(r, now, day_offset) ==
    IF day_offset >= EMS_SEARCH_DAYS THEN None
    ELSE LET check_date == now + day_offset * SecondsPerDay
             events == EmsParseScheduleEvents(r, check_date)
             event_datetime(i) == DateOf(check_date) * SecondsPerDay + events[i].time
             hits == {i \in 1..Len(events) :
                        events[i].is_active /\ event_datetime(i) > now}
         IN  IF ~r.exists THEN None
             ELSE IF hits # {}
             THEN event_datetime(CHOOSE i \in hits : \A k \in hits : i <= k) - now
             ELSE EmsTimeToNextActiveFrom(r, now, day_offset + 1)

\* ScheduleReader.get_time_to_next_active
EmsGetTimeToNextActive(r, now) == EmsTimeToNextActiveFrom(r, now, 0)

(***************************************************************************)
(* EmsZoneMasterCoordinator and ZoneState (coordinator.py).  Temperatures  *)
(* in tenths of a degree, demand in percent, time in seconds, the warmup   *)
(* factor in hundredths of a minute per degree.  A zone's PID controller   *)
(* is fed tenths of a degree, so its gains are per tenth of a degree.      *)
(***************************************************************************)

Zones == {"z1", "z2"}

\* the order of self.zones.values()
ZoneOrder == <<"z1", "z2">>

\* "for zone in self.zones.values()": the zones with F applied to each
ForEachZone(zs, F(_, _)) ==
    [zs EXCEPT !["z1"] = F("z1", @), !["z2"] = F("z2", @)]

\* const.py DEFAULT_WINDOW_DROP, 5.0 degrees
DEFAULT_WINDOW_DROP == 50

\* const.py DEFAULT_AWAY_TEMP, 15.0 degrees
DEFAULT_AWAY_TEMP == 150

\* const.py INITIAL_WARMUP_GUESS, 30.0 minutes per degree
INITIAL_WARMUP_GUESS == 3000

\* const.py SYNC_LOOK_AHEAD (minutes)
SYNC_LOOK_AHEAD == 45

\* _async_update_data: dt of the first tick (seconds)
FIRST_TICK_DT == 30

\* const.py VALVE_MAINTENANCE_DAYS
VALVE_MAINTENANCE_DAYS == 7

\* const.py VALVE_MAINTENANCE_HOUR
VALVE_MAINTENANCE_HOUR == 14

\* ZoneState.__init__ followed by the assignments of _init_zones
ZoneNew(default_setpoint, away_temp, zone_pid, has_window, has_schedule, zone_valve) ==
    [default_setpoint |-> default_setpoint, setpoint |-> default_setpoint,
     away_temp |-> away_temp, current_temp |-> None, demand |-> 0,
     pid |-> zone_pid,
     manual_setpoint |-> None, manual_setpoint_schedule_state |-> None,
     window_open |-> FALSE, disabled |-> FALSE,
     warmup_factor |-> INITIAL_WARMUP_GUESS, solar_drop |-> None,
     has_window |-> has_window, has_schedule |-> has_schedule,
     adaptive_start_active |-> FALSE, sync_forced |-> FALSE,
     warmup_started_at |-> None, warmup_start_temp |-> None,
     warmup_target_temp |-> None, valve_maintenance_pending |-> FALSE,
     valve |-> zone_valve]

\* EmsZoneMasterCoordinator.__init__: configuration and runtime state
CoordinatorNew(min_egress, solar_threshold, solar_drop, has_presence, away_delay, quiet_mode_max_flow, quiet_mode_ramp_minutes) ==
    [solar_threshold |-> solar_threshold, solar_drop |-> solar_drop,
     has_presence |-> has_presence, away_delay |-> away_delay,
     quiet_mode_max_flow |-> quiet_mode_max_flow,
     quiet_mode_ramp_minutes |-> quiet_mode_ramp_minutes,
     current_flow_temp |-> None, current_return_temp |-> None,
     outdoor_temp |-> None, solar_power |-> None,
     target_flow_temp |-> min_egress, max_demand |-> 0,
     cooldown_active |-> FALSE, heater_was_active |-> FALSE,
     last_update |-> None, away_mode_active |-> FALSE,
     presence_lost_at |-> None, quiet_mode_active |-> FALSE,
     first_block_start_time |-> None, last_quiet_mode_check_date |-> None]

\* a Python bool kept in a field that can also be None
BoolValue(b) == IF b THEN 1 ELSE 0

\* _read_sensor_states: the coordinator's readings
ReadHeaterSensors(c, in) ==
    [c EXCEPT !.current_flow_temp = in.flow_temp,
              !.current_return_temp = in.return_temp,
              !.outdoor_temp = in.outdoor_temp,
              !.solar_power = in.solar_power]

\* _read_sensor_states: one zone's readings
ReadZoneSensors(z, temp, window) ==
    [z EXCEPT !.current_temp = temp,
              !.window_open = IF z.has_window THEN window ELSE @]

\* _apply_synchronization: 100 * (required_start_time - now) in seconds, for
\* a zone whose next block has the given target
TimeUntilStart(z, time_to_active, target_temp) ==
    time_to_active * 100 - (target_temp - z.current_temp) * z.warmup_factor * 6

\* _apply_synchronization: the zone is appended to zone_starts
SyncCandidate(z, s, now) ==
    /\ z.has_schedule
    /\ z.current_temp # None
    /\ ~(IsScheduleActive(s) \/ z.manual_setpoint # None)
    /\ GetTimeToNextActive(s, now) # None
    /\ GetNextBlockSetpoint(s) # None
    /\ GetNextBlockSetpoint(s) - z.current_temp > 0
    /\ LET t == TimeUntilStart(z, GetTimeToNextActive(s, now), GetNextBlockSetpoint(s))
       IN  0 <= t /\ t <= SYNC_LOOK_AHEAD * 60 * 100

\* _apply_synchronization
ApplySynchronization(zs, sched, now) ==
    LET starts == {n \in Zones : SyncCandidate(zs[n], sched[n], now)}
        start(n) == TimeUntilStart(zs[n], GetTimeToNextActive(sched[n], now), GetNextBlockSetpoint(sched[n]))
        forced ==
            IF Cardinality(starts) > 1
            THEN LET earliest == CHOOSE n \in starts : \A k \in starts : start(n) <= start(k)
                     latest == CHOOSE n \in starts : \A k \in starts : start(n) >= start(k)
                 IN  IF start(latest) - start(earliest) <= SYNC_LOOK_AHEAD * 60 * 100
                     THEN {n \in starts : start(n) > start(earliest)}
                     ELSE {}
            ELSE {}
    IN  ForEachZone(zs, LAMBDA n, z : [z EXCEPT !.sync_forced = n \in forced])

\* _update_away_mode; presence is the presence entity's state, "none" when
\* the entity does not exist
UpdateAwayMode(c, presence, now) ==
    IF ~c.has_presence
    THEN [c EXCEPT !.away_mode_active = FALSE]
    ELSE IF presence = "none"
    THEN c
    ELSE IF presence \in {"on", "home"}
    THEN [c EXCEPT !.away_mode_active = FALSE, !.presence_lost_at = None]
    ELSE LET lost == IF c.presence_lost_at = None THEN now ELSE c.presence_lost_at
         IN  [c EXCEPT !.presence_lost_at = lost,
                       !.away_mode_active =
                           IF now - lost >= c.away_delay * 60 /\ ~c.away_mode_active
                           THEN TRUE ELSE @]

\* _update_zone_demands: "Check if manual setpoint should expire"
ExpireManualSetpoint(z, s) ==
    IF /\ z.manual_setpoint # None
       /\ z.has_schedule
       /\ z.manual_setpoint_schedule_state # None
       /\ BoolValue(IsScheduleActive(s)) # z.manual_setpoint_schedule_state
    THEN [z EXCEPT !.manual_setpoint = None,
                   !.manual_setpoint_schedule_state = None]
    ELSE z

\* a resolution that puts the manual setpoint ahead of away mode
ResolveSetpointManualFirst(c, z, s, now) ==
    IF z.manual_setpoint # None
    THEN [setpoint |-> z.manual_setpoint, adaptive_start_active |-> FALSE]
    ELSE [setpoint |-> z.away_temp, adaptive_start_active |-> FALSE]

\* _update_zone_demands: "Determine effective setpoint (priority: away >
\* manual > schedule > default)": the zone's setpoint and adaptive start flag
ResolveSetpoint(c, z, s, now) ==
    IF c.away_mode_active
    THEN [setpoint |-> z.away_temp, adaptive_start_active |-> FALSE]
    ELSE IF z.manual_setpoint # None
    THEN [setpoint |-> z.manual_setpoint, adaptive_start_active |-> FALSE]
    ELSE IF z.has_schedule
    THEN LET scheduled_setpoint == GetCurrentSetpoint(s, z.default_setpoint)
             time_to_active == GetTimeToNextActive(s, now)
             target_temp == GetNextBlockSetpoint(s)
             preheat == [setpoint |-> target_temp, adaptive_start_active |-> TRUE]
             setback == [setpoint |-> scheduled_setpoint,
                         adaptive_start_active |-> FALSE]
         IN  IF ~IsScheduleActive(s)
             THEN IF time_to_active # None /\ target_temp # None
                  THEN IF z.sync_forced
                       THEN preheat
                       ELSE IF target_temp - z.current_temp > 0
                       THEN IF time_to_active * 100
                                 <= (target_temp - z.current_temp) * z.warmup_factor * 6
                            THEN preheat
                            ELSE setback
                       ELSE setback
                  ELSE setback
             ELSE setback
    ELSE [setpoint |-> z.default_setpoint, adaptive_start_active |-> FALSE]

\* a solar limiting that replaces the window drop instead of adding to it
EffectiveSetpointLargest(c, z, setpoint) ==
    LET window_drop == IF z.window_open THEN DEFAULT_WINDOW_DROP ELSE 0
        solar_drop == IF c.solar_power # None /\ c.solar_power > c.solar_threshold
                      THEN (IF z.solar_drop # None THEN z.solar_drop ELSE c.solar_drop)
                      ELSE 0
    IN  setpoint - Max(window_drop, solar_drop)

\* _update_zone_demands: window drop and solar limiting
EffectiveSetpoint(c, z, setpoint) ==
    LET after_window == IF z.window_open THEN setpoint - DEFAULT_WINDOW_DROP
                        ELSE setpoint
    IN  IF c.solar_power # None /\ c.solar_power > c.solar_threshold
        THEN after_window
             - (IF z.solar_drop # None THEN z.solar_drop ELSE c.solar_drop)
        ELSE after_window

\* a smoothing that weighs the measurement and the old factor equally
WarmupBlendEven(old_factor, measured_factor) ==
    (5 * measured_factor + 5 * old_factor) \div 10

\* _track_warmup_learning: "Exponential smoothing (alpha = 0.3)"
WarmupBlend(old_factor, measured_factor) ==
    (3 * measured_factor + 7 * old_factor) \div 10

\* _track_warmup_learning: measured_factor = elapsed / temp_rise, in
\* hundredths of a minute per degree (elapsed in seconds, temp_rise in tenths)
MeasuredFactor(elapsed, temp_rise) == (elapsed * 1000) \div (60 * temp_rise)

\* _track_warmup_learning
TrackWarmupLearning(z, target_setpoint, now) ==
    LET temp_delta == target_setpoint - z.current_temp
        at_target == temp_delta <= 2
        stop == [z EXCEPT !.warmup_started_at = None,
                          !.warmup_start_temp = None,
                          !.warmup_target_temp = None]
    IN  IF z.current_temp = None THEN z
        ELSE IF z.warmup_started_at = None
        THEN IF temp_delta > 5 /\ z.demand > 10
             THEN [z EXCEPT !.warmup_started_at = now,
                            !.warmup_start_temp = z.current_temp,
                            !.warmup_target_temp = target_setpoint]
             ELSE z
        ELSE IF at_target /\ z.warmup_start_temp # None
        THEN LET elapsed == now - z.warmup_started_at
                 temp_rise == z.current_temp - z.warmup_start_temp
             IN  IF temp_rise > 5
                 THEN [stop EXCEPT !.warmup_factor =
                         WarmupBlend(@, MeasuredFactor(elapsed, temp_rise))]
                 ELSE stop
        ELSE IF z.demand < 5 THEN stop
        ELSE z

\* an away mode that deletes the manual setpoint it bypasses
UpdateZoneDemandAwayClears(c, z, s, dt, now) ==
    IF z.disabled THEN [z EXCEPT !.demand = 0]
    ELSE IF z.current_temp = None THEN [z EXCEPT !.demand = 0]
    ELSE LET z0 == ExpireManualSetpoint(z, s)
             z1 == IF c.away_mode_active
                   THEN [z0 EXCEPT !.manual_setpoint = None,
                                   !.manual_setpoint_schedule_state = None]
                   ELSE z0
             r == ResolveSetpoint(c, z1, s, now)
             effective_setpoint == EffectiveSetpoint(c, z1, r.setpoint)
             pid2 == PIDUpdate(z1.pid, effective_setpoint, z1.current_temp,
                               c.outdoor_temp, dt, now)
             z2 == [z1 EXCEPT !.setpoint = r.setpoint,
                              !.adaptive_start_active = r.adaptive_start_active,
                              !.pid = pid2,
                              !.demand = pid2.last_output]
         IN  TrackWarmupLearning(z2, effective_setpoint, now)

\* a loop that leaves a zone without a reading as it is
UpdateZoneDemandSkip(c, z, s, dt, now) ==
    IF z.disabled THEN [z EXCEPT !.demand = 0]
    ELSE IF z.current_temp = None THEN z
    ELSE LET z1 == ExpireManualSetpoint(z, s)
             r == ResolveSetpoint(c, z1, s, now)
             effective_setpoint == EffectiveSetpoint(c, z1, r.setpoint)
             pid2 == PIDUpdate(z1.pid, effective_setpoint, z1.current_temp,
                               c.outdoor_temp, dt, now)
             z2 == [z1 EXCEPT !.setpoint = r.setpoint,
                              !.adaptive_start_active = r.adaptive_start_active,
                              !.pid = pid2,
                              !.demand = pid2.last_output]
         IN  TrackWarmupLearning(z2, effective_setpoint, now)

\* _update_zone_demands: one zone of the loop
UpdateZoneDemand(c, z, s, dt, now) ==
    IF z.disabled THEN [z EXCEPT !.demand = 0]
    ELSE IF z.current_temp = None THEN [z EXCEPT !.demand = 0]
    ELSE LET z1 == ExpireManualSetpoint(z, s)
             r == ResolveSetpoint(c, z1, s, now)
             effective_setpoint == EffectiveSetpoint(c, z1, r.setpoint)
             pid2 == PIDUpdate(z1.pid, effective_setpoint, z1.current_temp,
                               c.outdoor_temp, dt, now)
             z2 == [z1 EXCEPT !.setpoint = r.setpoint,
                              !.adaptive_start_active = r.adaptive_start_active,
                              !.pid = pid2,
                              !.demand = pid2.last_output]
         IN  TrackWarmupLearning(z2, effective_setpoint, now)

\* _update_quiet_mode_state
UpdateQuietModeState(c, zs, sched, now) ==
    IF c.quiet_mode_max_flow <= 0
    THEN [c EXCEPT !.quiet_mode_active = FALSE, !.first_block_start_time = None]
    ELSE LET new_day == /\ c.last_quiet_mode_check_date # None
                        /\ DateOf(now) > DateOf(c.last_quiet_mode_check_date)
             kept_start == IF new_day THEN None ELSE c.first_block_start_time
             in_first == {i \in 1..Len(ZoneOrder) :
                            /\ zs[ZoneOrder[i]].has_schedule
                            /\ IsFirstBlockOfDay(sched[ZoneOrder[i]], now)}
             first_zone == ZoneOrder[CHOOSE i \in in_first : \A k \in in_first : i <= k]
             start == IF in_first # {} /\ kept_start = None
                      THEN GetFirstBlockStartTime(sched[first_zone], now)
                      ELSE kept_start
         IN  [c EXCEPT
                !.last_quiet_mode_check_date = now,
                !.first_block_start_time = start,
                !.quiet_mode_active =
                    IF in_first # {}
                    THEN IF start # None
                         THEN now - start < c.quiet_mode_ramp_minutes * 60
                         ELSE TRUE
                    ELSE FALSE]

\* _update_valve_states: the result of set_valve_state for every zone
ValveResults(m, c, zs, ok, now) ==
    ForEachZone(zs, LAMBDA n, z :
        SetValveState(m, z.valve, z.demand > 0 /\ ~c.cooldown_active,
                      c.cooldown_active, now, ok))

\* ValveManager.check_maintenance_needed
CheckMaintenanceNeeded(last_valve_activity, maintenance_pending, now) ==
    IF TimeOfDay(now) \div 3600 # VALVE_MAINTENANCE_HOUR THEN FALSE
    ELSE IF /\ last_valve_activity # None
            /\ now - last_valve_activity < VALVE_MAINTENANCE_DAYS * SecondsPerDay
    THEN FALSE
    ELSE IF maintenance_pending THEN FALSE
    ELSE TRUE

\* _check_valve_maintenance: the zones whose maintenance is scheduled
CheckValveMaintenance(zs, now) ==
    ForEachZone(zs, LAMBDA n, z :
        [z EXCEPT !.valve_maintenance_pending =
            @ \/ CheckMaintenanceNeeded(z.valve.last_valve_activity, @, now)])

\* the zones for which _check_valve_maintenance creates a background task:
\* those whose pending flag it has just set
MaintenanceTasksCreated(zs_before, zs_after) ==
    {n \in Zones : /\ ~zs_before[n].valve_maintenance_pending
                   /\ zs_after[n].valve_maintenance_pending}

\* the positional parameters of _perform_valve_maintenance after self: zone
PERFORM_MAINTENANCE_PARAMS == 1

\* the positional arguments _handle_force_valve_maintenance passes to
\* _perform_valve_maintenance: zone, VALVE_MAINTENANCE_DURATION
FORCE_MAINTENANCE_ARGS == 2

\* a call that tolerates surplus positional arguments
CallBindsAny(params, args) == args >= params

\* a Python call of a function without defaults or *args binds its arguments:
\* any other number of positional arguments raises TypeError before the body
CallBinds(params, args) == args = params

\* _perform_valve_maintenance, from its entry to the first await inside
\* perform_maintenance: one more cycle is in progress on the zone's valve
StartMaintenanceCycle(cycles, n) == [cycles EXCEPT ![n] = @ + 1]

\* _handle_force_valve_maintenance with call.data zone_name, up to the point
\* where it raises, returns, or is suspended inside the maintenance cycle;
\* entry_loaded is what the test entry.state.loaded of Home Assistant's config
\* entry says
ForceValveMaintenance(zs, cycles, zone_name, entry_loaded) ==
    IF zone_name = "" \/ ~entry_loaded \/ zone_name \notin Zones
    THEN [zones |-> zs, cycles |-> cycles, raised |-> FALSE]
    ELSE LET zs1 == [zs EXCEPT ![zone_name].valve_maintenance_pending = TRUE]
         IN  IF CallBinds(PERFORM_MAINTENANCE_PARAMS, FORCE_MAINTENANCE_ARGS)
             THEN [zones |-> zs1, cycles |-> StartMaintenanceCycle(cycles, zone_name),
                   raised |-> FALSE]
             ELSE [zones |-> zs1, cycles |-> cycles, raised |-> TRUE]

\* the maximum of the zone demands
MaxDemand(zs) ==
    CHOOSE d \in {zs[n].demand : n \in Zones} : \A n \in Zones : zs[n].demand <= d

\* _update_heater_control up to the await of the heater's service call, with
\* the zones as they are at that point.
\* dt_util.now() is timezone-aware, so the call of calculate_target_flow_temp
\* raises once a burner timestamp is set; what was assigned before the
\* exception stays assigned.
UpdateHeaterControlBegin(c, zs, h, now) ==
    LET max_demand == MaxDemand(zs)
        r == CalculateTargetFlowTemp(h, max_demand, c.current_flow_temp, c.current_return_temp, c.quiet_mode_active, c.first_block_start_time, now, TRUE)
        c1 == [c EXCEPT !.max_demand = max_demand]
        c2 == [c1 EXCEPT !.target_flow_temp = r.target,
                         !.cooldown_active = r.cooldown_active]
    IN  IF r.raised
        THEN [raised |-> TRUE, co |-> c1, heater |-> r.heater, zones |-> zs]
        ELSE [raised |-> FALSE, co |-> c2, heater |-> r.heater, zones |-> zs]

\* _update_heater_control from the return of the heater's service call: the
\* rest of set_flow_temperature and _update_valve_states, with the zones zs
\* as they are then
UpdateHeaterControlEnd(b, zs, m, ok, now) ==
    LET h2 == SetFlowTemperature(b.heater, b.co.target_flow_temp, now)
        c3 == [b.co EXCEPT !.heater_was_active = h2.heater_was_active]
        v == ValveResults(m, c3, zs, ok, now)
    IN  IF b.raised
        THEN [raised |-> TRUE, co |-> b.co, heater |-> b.heater, zones |-> zs,
              commands |-> ForEachZone(zs, LAMBDA n, z : <<>>)]
        ELSE [raised |-> FALSE, co |-> c3, heater |-> h2,
              zones |-> ForEachZone(zs, LAMBDA n, z : [z EXCEPT !.valve = v[n].valve]),
              commands |-> ForEachZone(zs, LAMBDA n, z : v[n].commands)]

\* _update_heater_control when nothing else runs during its awaits: the
\* second half continues from the one outcome b of the first
UpdateHeaterControl(c, zs, h, m, ok, now) ==
    CHOOSE r \in {UpdateHeaterControlEnd(b, b.zones, m, ok, now) :
                      b \in {UpdateHeaterControlBegin(c, zs, h, now)}} : TRUE

\* _async_update_data: the dt of a full tick at the time now
FullTickDt(c, now) ==
    IF c.last_update # None THEN now - c.last_update ELSE FIRST_TICK_DT

\* _async_update_data up to the await of the heater's service call: one full
\* tick at wall-clock time now with the entity states of the record in
AsyncUpdateDataBegin(c, zs, h, in, now) ==
    LET dt == FullTickDt(c, now)
        c1 == ReadHeaterSensors([c EXCEPT !.last_update = now], in)
        zs1 == ForEachZone(zs, LAMBDA n, z : ReadZoneSensors(z, in.temp[n], in.window[n]))
        zs2 == ApplySynchronization(zs1, in.sched, now)
        c2 == UpdateAwayMode(c1, in.presence, now)
        zs3 == ForEachZone(zs2, LAMBDA n, z : UpdateZoneDemand(c2, z, in.sched[n], dt, now))
        c3 == UpdateQuietModeState(c2, zs3, in.sched, now)
    IN  UpdateHeaterControlBegin(c3, zs3, h, now)

\* _async_update_data from the return of the heater's service call, with the
\* zones zs as they are then.  An exception leaves the tick at the phase
\* that raised it.
AsyncUpdateDataEnd(b, zs, m, in, now) ==
    LET hc == UpdateHeaterControlEnd(b, zs, m, in.valve_ok, now)
    IN  IF hc.raised
        THEN hc
        ELSE [hc EXCEPT !.zones = CheckValveMaintenance(hc.zones, now)]

\* _async_update_data when nothing else runs during its awaits: the second
\* half continues from the one outcome b of the first
AsyncUpdateData(c, zs, h, m, in, now) ==
    CHOOSE r \in {AsyncUpdateDataEnd(b, b.zones, m, in, now) :
                      b \in {AsyncUpdateDataBegin(c, zs, h, in, now)}} : TRUE

\* EmsZoneClimate.async_set_temperature; s is the zone's schedule entity
SetTemperature(z, temperature, s) ==
    [z EXCEPT !.manual_setpoint = temperature,
              !.setpoint = temperature,
              !.manual_setpoint_schedule_state =
                  IF z.has_schedule THEN BoolValue(IsScheduleActive(s))
                  ELSE None]

(***************************************************************************)
(* SpecPID: one PIDController driven by arbitrary update / reset /         *)
(* set_gains calls.                                                        *)
(***************************************************************************)

\* largest |integral| the exploration follows
MaxIntegral == 150

\* largest value of the monotonic clock the exploration follows
MaxMonotonic == 60

KpValues == {0, 30}

KiValues == {0, 1}

KdValues == {0, 60}

KeValues == {0, 1}

PidSetpoints == {21}

PidProcessValues == {20, 23}

PidOutdoorTemps == {None, 14}

PidDts == {None, 0 - 30, 0, 30}

PidMonotonicSteps == {0, 30}

PidStoredIntegrals == {0 - 120, 0, 120}

NoHeaterCall ==
    [before |-> HeaterNew(250, 550, 20, 0, 60), max_demand |-> 0,
     flow_temp |-> None, return_temp |-> None, quiet_mode_active |-> FALSE,
     first_block_start_time |-> None, now |-> 0, now_aware |-> FALSE,
     raised |-> FALSE, target |-> None, cooldown_active |-> FALSE]

NoValveCall ==
    [before |-> ValveNew("switch", "off"), should_open |-> FALSE,
     cooldown_active |-> FALSE, now |-> 0, commands |-> <<>>]

\* the inputs of a full tick: the time since the previous operation and the
\* entity states the tick reads
TickInput(step, flow_temp, return_temp, presence, temp, window, sched, valve_ok) ==
    [step |-> step, flow_temp |-> flow_temp, return_temp |-> return_temp,
     outdoor_temp |-> 14, solar_power |-> None, presence |-> presence,
     temp |-> temp, window |-> window, sched |-> sched, valve_ok |-> valve_ok]

\* the zone fields a tick starts from that its results are compared with
TickBefore(zs) ==
    ForEachZone(zs, LAMBDA n, z :
        [manual_setpoint |-> z.manual_setpoint,
         manual_setpoint_schedule_state |-> z.manual_setpoint_schedule_state,
         warmup_factor |-> z.warmup_factor,
         warmup_started_at |-> z.warmup_started_at,
         warmup_start_temp |-> z.warmup_start_temp,
         warmup_target_temp |-> z.warmup_target_temp,
         valve_maintenance_pending |-> z.valve_maintenance_pending,
         demand |-> z.demand,
         setpoint |-> z.setpoint,
         pid |-> z.pid])

NoTick ==
    [count |-> 0, raised |-> FALSE,
     in |-> TickInput(0, None, None, "none", [n \in Zones |-> None],
                      [n \in Zones |-> FALSE], [n \in Zones |-> NoSchedule], TRUE),
     commands |-> [n \in Zones |-> <<>>],
     before |-> [n \in Zones |->
                   [manual_setpoint |-> None,
                    manual_setpoint_schedule_state |-> None,
                    warmup_factor |-> INITIAL_WARMUP_GUESS,
                    warmup_started_at |-> None,
                    warmup_start_temp |-> None,
                    warmup_target_temp |-> None,
                    valve_maintenance_pending |-> FALSE,
                    demand |-> 0,
                    setpoint |-> None,
                    pid |-> PIDNew(0, 0, 0, 0)]]]

NoPidCall ==
    [setpoint |-> None, pv |-> None, outdoor |-> None, dt |-> None,
     integral_before |-> 0, raw |-> 0]

InitSRIdle ==
    /\ sreader = NotInstantiated
    /\ sr_op = "init"
    /\ sr_call = NotInstantiated

InitPIDIdle ==
    /\ pid_twin = NotInstantiated
    /\ pid = NotInstantiated
    /\ pid_op = "init"
    /\ pid_call = NotInstantiated

InitHeaterIdle ==
    /\ heater = NotInstantiated
    /\ hc_now = 0
    /\ hc_op = "init"
    /\ hc_call = NotInstantiated

InitValveIdle ==
    /\ vmgr = NotInstantiated
    /\ valve = NotInstantiated
    /\ vm_now = 0
    /\ vm_op = "init"
    /\ vm_call = NotInstantiated

InitAuxIdle == hvac_request = NotInstantiated /\ dt_log = NotInstantiated

InitExtIdle ==
    /\ InitAuxIdle
    /\ maint = NotInstantiated
    /\ debouncer = NotInstantiated
    /\ inflight = NotInstantiated
    /\ store = NotInstantiated

InitCoIdle ==
    /\ co = NotInstantiated
    /\ zones = NotInstantiated
    /\ co_now = 0
    /\ co_op = "init"
    /\ tick = NotInstantiated

InitPID ==
    /\ InitHeaterIdle
    /\ InitValveIdle
    /\ InitCoIdle
    /\ InitSRIdle
    /\ InitExtIdle
    /\ pid_twin = NotInstantiated
    /\ \E kp \in KpValues, ki \in KiValues, kd \in KdValues, ke \in KeValues,
          i \in PidStoredIntegrals :
            pid = [PIDNew(kp, ki, kd, ke) EXCEPT !.integral = i]
    /\ pid_op = "init"
    /\ pid_call = NoPidCall

PIDUpdateCall ==
    \E setpoint \in PidSetpoints, pv \in PidProcessValues,
       outdoor \in PidOutdoorTemps, dt_arg \in PidDts,
       step \in PidMonotonicSteps :
        LET base == IF pid.last_time = None THEN 0 ELSE pid.last_time
            current_time == base + step
            dt == PIDDt(pid, dt_arg, current_time)
            p2 == PIDUpdate(pid, setpoint, pv, outdoor, dt_arg, current_time)
        IN  /\ current_time <= MaxMonotonic
            /\ p2.integral <= MaxIntegral
            /\ p2.integral >= 0 - MaxIntegral
            /\ pid' = p2
            /\ pid_op' = "update"
            /\ pid_call' = [setpoint |-> setpoint, pv |-> pv, outdoor |-> outdoor,
                            dt |-> dt, integral_before |-> pid.integral,
                            raw |-> PIDRawOutput(pid, setpoint, pv, outdoor, dt)]
            /\ UNCHANGED NotPidVars

PIDResetCall ==
    /\ pid_op # "reset"
    /\ pid' = PIDReset(pid)
    /\ pid_op' = "reset"
    /\ UNCHANGED <<pid_call, NotPidVars>>

\* number.py async_set_native_value: set_gains(**{gain_name: value}), one gain
\* per call
PIDSetGainsCall ==
    \E kp \in KpValues \cup {None}, ki \in KiValues \cup {None},
       kd \in KdValues \cup {None}, ke \in KeValues \cup {None} :
        /\ Cardinality({g \in {<<"kp", kp>>, <<"ki", ki>>, <<"kd", kd>>, <<"ke", ke>>} :
                            g[2] # None}) = 1
        /\ pid' = PIDSetGains(pid, kp, ki, kd, ke)
        /\ pid' # pid
        /\ pid_op' = "set_gains"
        /\ UNCHANGED <<pid_call, NotPidVars>>

NextPID == PIDUpdateCall \/ PIDResetCall \/ PIDSetGainsCall

SpecPID == InitPID /\ [][NextPID]_vars

(***************************************************************************)
(* SpecCommit: one PIDController that starts with a large stored integral  *)
(* of either sign and is driven by update calls, so that the candidate      *)
(* output of the anti-windup test lies below 0, inside (0, 100) and above  *)
(* 100 with errors of both signs.                                          *)
(***************************************************************************)

\* largest |integral| the exploration follows
MaxCommitIntegral == 240

CommitStoredIntegrals == {0 - 180, 0, 180}

InitCommit ==
    /\ InitHeaterIdle
    /\ InitValveIdle
    /\ InitCoIdle
    /\ InitSRIdle
    /\ InitExtIdle
    /\ pid_twin = NotInstantiated
    /\ \E kp \in KpValues, ki \in KiValues, i \in CommitStoredIntegrals :
            pid = [PIDNew(kp, ki, 0, 0) EXCEPT !.integral = i]
    /\ pid_op = "init"
    /\ pid_call = NoPidCall

CommitUpdateCall ==
    \E setpoint \in PidSetpoints, pv \in PidProcessValues \cup PidSetpoints,
       dt_arg \in PidDts, step \in PidMonotonicSteps :
        LET base == IF pid.last_time = None THEN 0 ELSE pid.last_time
            current_time == base + step
            dt == PIDDt(pid, dt_arg, current_time)
            p2 == PIDUpdate(pid, setpoint, pv, None, dt_arg, current_time)
        IN  /\ current_time <= MaxMonotonic
            /\ p2.integral <= MaxCommitIntegral
            /\ p2.integral >= 0 - MaxCommitIntegral
            /\ pid' = p2
            /\ pid_op' = "update"
            /\ pid_call' = [setpoint |-> setpoint, pv |-> pv, outdoor |-> None,
                            dt |-> dt, integral_before |-> pid.integral,
                            raw |-> PIDRawOutput(pid, setpoint, pv, None, dt)]
            /\ UNCHANGED NotPidVars

NextCommit == CommitUpdateCall

SpecCommit == InitCommit /\ [][NextCommit]_vars

(***************************************************************************)
(* SpecTwin: two PIDController instances, pid and pid_twin, with the same  *)
(* gains and the same initial state.  Each step calls update() once on     *)
(* each with the same arguments, dt given, at monotonic clock readings     *)
(* that are chosen separately for the two.                                 *)
(***************************************************************************)

\* the dt arguments of the paired calls (seconds)
TwinDts == {0 - 30, 0, 30}

InitTwin ==
    /\ InitHeaterIdle
    /\ InitValveIdle
    /\ InitCoIdle
    /\ InitSRIdle
    /\ InitExtIdle
    /\ \E kp \in KpValues, ki \in KiValues, kd \in KdValues, ke \in KeValues,
          i \in PidStoredIntegrals :
            /\ pid = [PIDNew(kp, ki, kd, ke) EXCEPT !.integral = i]
            /\ pid_twin = [PIDNew(kp, ki, kd, ke) EXCEPT !.integral = i]
    /\ pid_op = "init"
    /\ pid_call = NoPidCall

TwinUpdateCall ==
    \E setpoint \in PidSetpoints, pv \in PidProcessValues,
       outdoor \in PidOutdoorTemps, dt_arg \in TwinDts,
       step \in PidMonotonicSteps, twin_step \in PidMonotonicSteps :
        LET current_time == (IF pid.last_time = None THEN 0 ELSE pid.last_time) + step
            twin_time == (IF pid_twin.last_time = None THEN 0
                          ELSE pid_twin.last_time) + twin_step
            p2 == PIDUpdate(pid, setpoint, pv, outdoor, dt_arg, current_time)
            t2 == PIDUpdate(pid_twin, setpoint, pv, outdoor, dt_arg, twin_time)
        IN  /\ current_time <= MaxMonotonic
            /\ twin_time <= MaxMonotonic
            /\ p2.integral <= MaxIntegral
            /\ p2.integral >= 0 - MaxIntegral
            /\ t2.integral <= MaxIntegral
            /\ t2.integral >= 0 - MaxIntegral
            /\ pid' = p2
            /\ pid_twin' = t2
            /\ pid_op' = "update"
            /\ pid_call' = [setpoint |-> setpoint, pv |-> pv, outdoor |-> outdoor,
                            dt |-> PIDDt(pid, dt_arg, current_time),
                            integral_before |-> pid.integral,
                            raw |-> PIDRawOutput(pid, setpoint, pv, outdoor,
                                                 PIDDt(pid, dt_arg, current_time))]
            /\ UNCHANGED <<heaterVars, valveVars, coVars, srVars, extVars>>

NextTwin == TwinUpdateCall

SpecTwin == InitTwin /\ [][NextTwin]_vars

(***************************************************************************)
(* SpecHeater: one HeaterController driven by calculate_target_flow_temp   *)
(* and set_flow_temperature calls while the clock advances.                *)
(***************************************************************************)

\* last clock value (seconds) the exploration follows
MaxHeaterNow == 480

HcClockSteps == {180, 300}

HcDemands == {0, 17, 19, 20, 60, 100}

\* <<flow_temp, return_temp>> readings, in tenths of a degree
HcReadings ==
    {<<400, None>>, <<240, 230>>, <<400, 370>>, <<400, 340>>, <<400, 320>>}

\* <<quiet_mode_active, first_block_start_time>>
HcQuiet == {<<FALSE, None>>, <<TRUE, 0>>}

InitHeater ==
    /\ InitPIDIdle
    /\ InitValveIdle
    /\ InitCoIdle
    /\ InitSRIdle
    /\ InitExtIdle
    /\ heater = HeaterNew(250, 550, 20, 350, 60)
    /\ hc_now = 0
    /\ hc_op = "init"
    /\ hc_call = NoHeaterCall

\* a caller invokes calculate_target_flow_temp
HCCalculate ==
    \E max_demand \in HcDemands, rd \in HcReadings, q \in HcQuiet,
       now_aware \in BOOLEAN :
        LET r == CalculateTargetFlowTemp(heater, max_demand, rd[1], rd[2],
                                         q[1], q[2], hc_now, now_aware)
        IN  /\ heater' = r.heater
            /\ hc_op' = "calculate"
            /\ hc_call' = [before |-> heater, max_demand |-> max_demand,
                           flow_temp |-> rd[1], return_temp |-> rd[2],
                           quiet_mode_active |-> q[1],
                           first_block_start_time |-> q[2], now |-> hc_now,
                           now_aware |-> now_aware, raised |-> r.raised,
                           target |-> r.target,
                           cooldown_active |-> r.cooldown_active]
            /\ UNCHANGED <<hc_now, NotHeaterVars>>

\* the caller applies the target it was given (coordinator.py
\* _update_heater_control: set_flow_temperature(self._target_flow_temp))
HCSetFlow ==
    /\ hc_op = "calculate"
    /\ ~hc_call.raised
    /\ heater' = SetFlowTemperature(heater, hc_call.target, hc_now)
    /\ hc_op' = "set_flow"
    /\ UNCHANGED <<hc_now, hc_call, NotHeaterVars>>

\* time passes between calls
HCAdvance ==
    \E d \in HcClockSteps :
        /\ hc_now + d <= MaxHeaterNow
        /\ hc_now' = hc_now + d
        /\ UNCHANGED <<heater, hc_op, hc_call, NotHeaterVars>>

NextHeater == HCCalculate \/ HCSetFlow \/ HCAdvance

SpecHeater == InitHeater /\ [][NextHeater]_vars

(***************************************************************************)
(* SpecValve: one ValveManager and one valve driven by arbitrary           *)
(* set_valve_state calls as the clock advances.                            *)
(***************************************************************************)

\* largest value of the wall clock the exploration follows (seconds)
MaxValveNow == 600

VmClockSteps == {60, 240}

\* configured minimum on / off times (minutes)
VmMinTimes == {0, DEFAULT_VALVE_MIN_ON_TIME}

\* the valve entities: <<domain, initial state>>
VmEntities ==
    {<<"switch", "off">>, <<"switch", "on">>, <<"switch", "none">>,
     <<"climate", "off">>, <<"climate", "heat">>, <<"climate", "auto">>,
     <<"climate", "unavailable">>, <<"cover", "closed">>}

InitValve ==
    /\ InitPIDIdle
    /\ InitHeaterIdle
    /\ InitCoIdle
    /\ InitSRIdle
    /\ InitExtIdle
    /\ \E on \in VmMinTimes, off \in VmMinTimes : vmgr = ValveManagerNew(on, off)
    /\ \E e \in VmEntities : valve = ValveNew(e[1], e[2])
    /\ vm_now = 0
    /\ vm_op = "init"
    /\ vm_call = NoValveCall

\* a caller invokes set_valve_state with the zone's timestamps and stores
\* the returned ones (coordinator.py _update_valve_states)
VMSetValveState ==
    \E should_open \in BOOLEAN, cooldown_active \in BOOLEAN, ok \in BOOLEAN :
        LET r == SetValveState(vmgr, valve, should_open, cooldown_active,
                               vm_now, ok)
        IN  /\ valve' = r.valve
            /\ vm_op' = "set_valve_state"
            /\ vm_call' = [before |-> valve, should_open |-> should_open,
                           cooldown_active |-> cooldown_active, now |-> vm_now,
                           commands |-> r.commands]
            /\ UNCHANGED <<vmgr, vm_now, NotValveVars>>

\* time passes between calls
VMAdvance ==
    \E d \in VmClockSteps :
        /\ vm_now + d <= MaxValveNow
        /\ vm_now' = vm_now + d
        /\ UNCHANGED <<vmgr, valve, vm_op, vm_call, NotValveVars>>

NextValve == VMSetValveState \/ VMAdvance

SpecValve == InitValve /\ [][NextValve]_vars

(***************************************************************************)
(* The coordinator: full ticks and set_temperature calls.                  *)
(***************************************************************************)

\* number of full ticks the exploration follows
MaxTicks == 2

\* _async_update_data with the inputs in; the clock has advanced by in.step
CoTickCore(in) ==
    /\ LET now == co_now + in.step
           r == AsyncUpdateData(co, zones, heater, vmgr, in, now)
       IN  /\ co' = r.co
           /\ zones' = r.zones
           /\ heater' = r.heater
           /\ co_now' = now
           /\ co_op' = "tick"
           /\ tick' = [count |-> tick.count + 1, raised |-> r.raised, in |-> in,
                       commands |-> r.commands, before |-> TickBefore(zones)]
    /\ UNCHANGED <<vmgr, NotCoVars>>

\* a full tick of a coordinator without background work in progress
CoTickBody(in) == CoTickCore(in) /\ UNCHANGED extVars

\* a full tick, while the exploration follows
CoTick(in) == tick.count < MaxTicks /\ CoTickBody(in)

\* climate.async_set_temperature on zone n while its schedule entity is s
CoSetTemperature(n, temperature, s) ==
    /\ co_op # "set_temperature"
    /\ zones' = [zones EXCEPT ![n] = SetTemperature(@, temperature, s)]
    /\ co_op' = "set_temperature"
    /\ UNCHANGED <<co, co_now, tick, heater, vmgr, NotCoVars, extVars>>

\* the variables of the components a coordinator specification does not drive
InitCoOthersIdleButExt ==
    /\ InitPIDIdle
    /\ InitSRIdle
    /\ hc_now = 0 /\ hc_op = "init" /\ hc_call = NotInstantiated
    /\ valve = NotInstantiated
    /\ vm_now = 0 /\ vm_op = "init" /\ vm_call = NotInstantiated

\* the same for a coordinator without background work or persistence
InitCoOthersIdle == InitCoOthersIdleButExt /\ InitExtIdle

\* the coordinator's collaborators and clock after async_setup_entry, at 05:00
InitCoCommon ==
    /\ heater = HeaterNew(250, 550, 20, co.quiet_mode_max_flow, co.quiet_mode_ramp_minutes)
    /\ vmgr = ValveManagerNew(DEFAULT_VALVE_MIN_ON_TIME, DEFAULT_VALVE_MIN_OFF_TIME)
    /\ co_now = 18000
    /\ co_op = "init"
    /\ tick = NoTick

\* a schedule entity that is on in a block of 21.0 degrees, with the first
\* block of the day from 04:30 to 08:00
SchedMorning == ScheduleEntity("on", 210, None, None, <<16200, 28800>>)

\* a schedule entity that is on in the overnight block 22:00 - 06:00
SchedOvernight == ScheduleEntity("on", 210, None, None, <<79200, 21600>>)

\* a schedule entity that is off, with no upcoming event
SchedOff == ScheduleEntity("off", None, None, None, <<16200, 28800>>)

\* a schedule entity that is off; its next block, of 21.0 degrees, starts at
\* the absolute time next_event
SchedUpcoming(next_event) ==
    ScheduleEntity("off", None, next_event, 210, <<next_event % SecondsPerDay, 79200>>)

(***************************************************************************)
(* Spec: the coordinator with quiet mode configured; zone z1 follows a     *)
(* schedule, zone z2 has a window sensor and no schedule.                  *)
(***************************************************************************)

SpecSteps == {30, 300}

SpecReadings == {<<None, None>>, <<400, 370>>, <<400, 320>>}

\* zone z2's temperature and window readings
SpecWindowReadings == {<<None, FALSE>>, <<190, TRUE>>}

SpecInputs ==
    {TickInput(st, rd[1], rd[2], "none",
               [n \in Zones |-> IF n = "z1" THEN t1 ELSE wr[1]],
               [n \in Zones |-> n = "z2" /\ wr[2]],
               [n \in Zones |-> IF n = "z1" THEN s1 ELSE NoSchedule], TRUE) :
        st \in SpecSteps, rd \in SpecReadings, t1 \in {190, 215},
        wr \in SpecWindowReadings,
        s1 \in {SchedMorning, SchedOvernight, SchedOff}}

Init ==
    /\ InitCoOthersIdle
    /\ co = CoordinatorNew(250, 2000, 50, FALSE, 30, 350, 60)
    /\ zones = [n \in Zones |->
                  IF n = "z1"
                  THEN ZoneNew(200, DEFAULT_AWAY_TEMP, PIDNew(3, 0, 0, 0), FALSE, TRUE,
                               ValveNew("switch", "off"))
                  ELSE ZoneNew(200, DEFAULT_AWAY_TEMP, PIDNew(3, 0, 0, 0), TRUE, FALSE,
                               ValveNew("climate", "off"))]
    /\ InitCoCommon

Tick == \E in \in SpecInputs : CoTick(in)

SetTemperatureCall ==
    \E n \in Zones, s \in {SchedMorning, SchedOff} :
        CoSetTemperature(n, 220, IF n = "z1" THEN s ELSE NoSchedule)

Next == Tick \/ SetTemperatureCall

Spec == Init /\ [][Next]_vars

(***************************************************************************)
(* SpecAway: the coordinator with a presence entity and an away delay of   *)
(* 30 minutes; zone z1 follows a schedule, zone z2 has none.  Manual       *)
(* setpoints are set between ticks.                                        *)
(***************************************************************************)

AwaySteps == {30, 1800}

AwayPresence == {"none", "home", "not_home"}

AwayInputs ==
    {TickInput(st, None, None, pr,
               [n \in Zones |-> IF n = "z1" THEN t1 ELSE 190],
               [n \in Zones |-> FALSE],
               [n \in Zones |-> IF n = "z1" THEN s1 ELSE NoSchedule], TRUE) :
        st \in AwaySteps, pr \in AwayPresence, t1 \in {None, 190},
        s1 \in {SchedMorning, SchedOff}}

InitAway ==
    /\ InitCoOthersIdle
    /\ co = CoordinatorNew(250, 2000, 50, TRUE, 30, 0, 60)
    /\ zones = [n \in Zones |->
                  ZoneNew(200, DEFAULT_AWAY_TEMP, PIDNew(3, 0, 0, 0), FALSE, n = "z1",
                          ValveNew("switch", "off"))]
    /\ InitCoCommon

TickAway == \E in \in AwayInputs : CoTick(in)

SetTemperatureAway ==
    \E n \in Zones, s \in {SchedMorning, SchedOff} :
        CoSetTemperature(n, 220, IF n = "z1" THEN s ELSE NoSchedule)

NextAway == TickAway \/ SetTemperatureAway

SpecAway == InitAway /\ [][NextAway]_vars

(***************************************************************************)
(* SpecPreheat: the coordinator with two zones that both follow a          *)
(* schedule whose next block of 21.0 degrees is still ahead.               *)
(***************************************************************************)

\* the starts of zone z1's next block: 05:30 and 06:10
PreheatEventsZ1 == {19800, 22200}

\* the starts of zone z2's next block: 06:40 and 09:00
PreheatEventsZ2 == {24000, 32400}

PreheatInputs ==
    {TickInput(st, None, None, "none",
               [n \in Zones |-> IF n = "z1" THEN t1 ELSE t2],
               [n \in Zones |-> FALSE],
               [n \in Zones |-> IF n = "z1" THEN s1 ELSE s2], TRUE) :
        st \in SpecSteps, t1 \in {190, 215}, t2 \in {None, 190},
        s1 \in {SchedMorning} \cup {SchedUpcoming(e) : e \in PreheatEventsZ1},
        s2 \in {SchedMorning} \cup {SchedUpcoming(e) : e \in PreheatEventsZ2}}

InitPreheat ==
    /\ InitCoOthersIdle
    /\ co = CoordinatorNew(250, 2000, 50, FALSE, 30, 0, 60)
    /\ zones = [n \in Zones |->
                  ZoneNew(200, DEFAULT_AWAY_TEMP, PIDNew(3, 0, 0, 0), FALSE, TRUE,
                          ValveNew("switch", "off"))]
    /\ InitCoCommon

TickPreheat == \E in \in PreheatInputs : CoTick(in)

SetTemperaturePreheat ==
    \E n \in Zones : CoSetTemperature(n, 220, SchedOff)

NextPreheat == TickPreheat \/ SetTemperaturePreheat

SpecPreheat == InitPreheat /\ [][NextPreheat]_vars

(***************************************************************************)
(* SpecWarmup: the coordinator with two zones without schedule and a       *)
(* default setpoint of 21.0; zone z1 starts from a stored warmup factor    *)
(* and is heated from 19.0 to 21.0 again and again.  The stored factors    *)
(* are whole tens of minutes per degree and the cycles take whole tens of  *)
(* minutes per degree, which keeps three successive blends exact in        *)
(* hundredths.                                                             *)
(***************************************************************************)

\* the time the exploration follows: 05:00 plus two hours, three cycles
MaxWarmupNow == 25200

\* warmup_factors restored from the store by _init_zones
WarmupStarts == {0, 1000, 2000, 3000}

WarmupSteps == {1200, 2400}

WarmupInputs ==
    {TickInput(st, None, None, "none",
               [n \in Zones |-> IF n = "z1" THEN t1 ELSE 210],
               [n \in Zones |-> FALSE], [n \in Zones |-> NoSchedule], TRUE) :
        st \in WarmupSteps, t1 \in {190, 210}}

InitWarmup ==
    /\ InitCoOthersIdle
    /\ co = CoordinatorNew(250, 2000, 50, FALSE, 30, 0, 60)
    /\ \E w \in WarmupStarts :
          zones = [n \in Zones |->
                     [ZoneNew(210, DEFAULT_AWAY_TEMP, PIDNew(3, 0, 0, 0), FALSE, FALSE,
                              ValveNew("switch", "off"))
                        EXCEPT !.warmup_factor = IF n = "z1" THEN w ELSE @]]
    /\ InitCoCommon

TickWarmup ==
    \E in \in WarmupInputs :
        /\ co_now + in.step <= MaxWarmupNow
        /\ CoTickBody(in)

NextWarmup == TickWarmup

SpecWarmup == InitWarmup /\ [][NextWarmup]_vars

(***************************************************************************)
(* SpecMaint: the coordinator over more than a week.  The ticks followed   *)
(* are an hour, nine hours (05:00 to 14:00) or seven days apart; the ticks *)
(* the loop runs in between, every 30 seconds with unchanged readings,     *)
(* rewrite last_update and last_valve_activity, which the next tick        *)
(* followed rewrites again before reading them, and add to PID integrals   *)
(* that carry no weight (ki = 0).  Zone z1 is at times half a degree under *)
(* its setpoint, which opens its valve without igniting the boiler; zone   *)
(* z2 never has demand.                                                    *)
(***************************************************************************)

\* number of ticks the exploration follows
MaxMaintTicks == 4

MaintSteps == {3600, 9 * 3600, VALVE_MAINTENANCE_DAYS * SecondsPerDay}

MaintInputs ==
    {TickInput(st, None, None, "none",
               [n \in Zones |-> IF n = "z1" THEN t1 ELSE 210],
               [n \in Zones |-> FALSE], [n \in Zones |-> NoSchedule], ok) :
        st \in MaintSteps, t1 \in {205, 210}, ok \in BOOLEAN}

InitMaint ==
    /\ InitCoOthersIdle
    /\ co = CoordinatorNew(250, 2000, 50, FALSE, 30, 0, 60)
    /\ \E e \in {<<"switch", "off">>, <<"climate", "off">>} :
          zones = [n \in Zones |->
                     ZoneNew(210, DEFAULT_AWAY_TEMP, PIDNew(3, 0, 0, 0), FALSE, FALSE,
                             ValveNew(e[1], e[2]))]
    /\ InitCoCommon

TickMaint ==
    \E in \in MaintInputs :
        /\ tick.count < MaxMaintTicks
        /\ CoTickBody(in)

NextMaint == TickMaint

SpecMaint == InitMaint /\ [][NextMaint]_vars

(***************************************************************************)
(* SpecForce: full ticks and force_valve_maintenance service calls, in any *)
(* order.  maint.cycles counts, per zone, the maintenance cycles that have *)
(* been started and have not ended.                                        *)
(***************************************************************************)

ForceInputs ==
    {TickInput(st, None, None, "none",
               [n \in Zones |-> IF n = "z1" THEN t1 ELSE 210],
               [n \in Zones |-> FALSE], [n \in Zones |-> NoSchedule], TRUE) :
        st \in {30, 9 * 3600}, t1 \in {205, 210}}

\* the zone_name of a service call: a zone, an unknown name, no name
ForceZoneNames == Zones \cup {"attic", ""}

NoMaint ==
    [cycles |-> [n \in Zones |-> 0], zone_name |-> "", raised |-> FALSE,
     entry_loaded |-> FALSE, was_pending |-> FALSE]

InitForce ==
    /\ InitCoOthersIdleButExt
    /\ debouncer = NotInstantiated
    /\ inflight = NotInstantiated
    /\ store = NotInstantiated
    /\ InitAuxIdle
    /\ maint = NoMaint
    /\ co = CoordinatorNew(250, 2000, 50, FALSE, 30, 0, 60)
    /\ \E e \in {<<"switch", "off">>, <<"climate", "off">>} :
          zones = [n \in Zones |->
                     ZoneNew(210, DEFAULT_AWAY_TEMP, PIDNew(3, 0, 0, 0), FALSE, FALSE,
                             ValveNew(e[1], e[2]))]
    /\ InitCoCommon

\* a full tick; _check_valve_maintenance starts a background cycle for every
\* zone it marks pending
TickForce ==
    \E in \in ForceInputs :
        /\ tick.count < MaxTicks
        /\ CoTickCore(in)
        /\ maint' = [maint EXCEPT
                        !.cycles = [n \in Zones |->
                                      IF n \in MaintenanceTasksCreated(zones, zones')
                                      THEN @[n] + 1 ELSE @[n]]]
        /\ UNCHANGED <<debouncer, inflight, store, auxVars>>

\* the service heating_pid.force_valve_maintenance is called
ForceCall ==
    \E zone_name \in ForceZoneNames, entry_loaded \in BOOLEAN :
        LET r == ForceValveMaintenance(zones, maint.cycles, zone_name, entry_loaded)
        IN  /\ zones' = r.zones
            /\ maint' = [cycles |-> r.cycles, zone_name |-> zone_name,
                         raised |-> r.raised, entry_loaded |-> entry_loaded,
                         was_pending |-> IF zone_name \in Zones
                                         THEN zones[zone_name].valve_maintenance_pending
                                         ELSE FALSE]
            /\ co_op' = "force_valve_maintenance"
            /\ UNCHANGED <<co, co_now, tick, heater, vmgr, NotCoVars,
                           debouncer, inflight, store, auxVars>>

NextForce == TickForce \/ ForceCall

SpecForce == InitForce /\ [][NextForce]_vars

(***************************************************************************)
(* state_debouncer.py and the coordinator's window tracking.  debouncer    *)
(* holds the window sensor of zone WinZone (state: the entity's state,     *)
(* since: the time it took that state), the StateDebouncer's               *)
(* _prev_state_<entity> and _pending entry, and flip, the record of the    *)
(* last change of the zone's window_open.                                  *)
(***************************************************************************)

\* _setup_window_tracking: delay_seconds=30.0
WINDOW_DEBOUNCE_DELAY == 30

\* const.py COORDINATOR_UPDATE_INTERVAL (seconds)
COORDINATOR_UPDATE_INTERVAL == 30

\* the zone whose window sensor is tracked
WinZone == "z2"

\* the states of a binary_sensor entity
SensorStates == {"on", "off", "unavailable"}

\* no entry in StateDebouncer._pending
NoPending == [new_state |-> "", cb_state |-> "", due |-> None]

\* no change of window_open yet
NoFlip == [count |-> 0, value |-> FALSE, state |-> "", held |-> 0, by |-> ""]

\* track_entity: the entity has been in state since the time since
DebouncerNew(state, since) ==
    [state |-> state, since |-> since, prev_state |-> state,
     pending |-> NoPending, flip |-> NoFlip]

\* PendingChange(new_state, detected_at=now, delay_seconds, callback), with
\* the timer of _schedule_confirmation; cb_state is the state the callback's
\* lambda has captured
PendingChange(new_state, cb_state, now) ==
    [new_state |-> new_state, cb_state |-> cb_state,
     due |-> now + WINDOW_DEBOUNCE_DELAY]

\* track_entity._state_listener, after the entity took the state d.state
StateListener(d, now) ==
    IF d.pending # NoPending
    THEN IF d.state = d.pending.new_state
         THEN [d EXCEPT !.pending.due = now + WINDOW_DEBOUNCE_DELAY]
         ELSE IF d.state = d.prev_state
         THEN [d EXCEPT !.pending = NoPending]
         ELSE d
    ELSE IF d.state # d.prev_state
         THEN [d EXCEPT !.pending = PendingChange(d.state, d.state, now)]
         ELSE d

\* _schedule_confirmation._confirm_callback without the awaited callback:
\* the debouncer after the timer, and whether the callback is called
ConfirmCallback(d, now) ==
    IF d.state = d.pending.new_state
    THEN [d |-> [d EXCEPT !.prev_state = d.pending.new_state, !.pending = NoPending],
          confirmed |-> TRUE, state |-> d.pending.cb_state]
    ELSE [d |-> [d EXCEPT !.pending = PendingChange(d.state, d.pending.cb_state, now)],
          confirmed |-> FALSE, state |-> ""]

\* _update_single_zone: the dt of an event-driven update at the time now
SingleZoneDt(c, now) ==
    IF c.last_update # None THEN now - c.last_update
    ELSE COORDINATOR_UPDATE_INTERVAL

\* _update_single_zone
UpdateSingleZone(c, z, now) ==
    IF z.disabled \/ z.current_temp = None THEN z
    ELSE LET dt == SingleZoneDt(c, now)
             effective_setpoint == IF z.window_open
                                   THEN z.setpoint - DEFAULT_WINDOW_DROP
                                   ELSE z.setpoint
             pid2 == PIDUpdate(z.pid, effective_setpoint, z.current_temp,
                               c.outdoor_temp, dt, now)
         IN  [z EXCEPT !.pid = pid2,
                       !.demand = Max(0, Min(100, pid2.last_output))]

\* _on_window_change
OnWindowChange(c, z, state, now) ==
    LET is_open == state = "on"
    IN  IF z.window_open # is_open
        THEN UpdateSingleZone(c, [z EXCEPT !.window_open = is_open], now)
        ELSE z

\* the record of a change of window_open from before to after, made by by
RecordFlip(d, before, after, now, by) ==
    IF before = after THEN d
    ELSE [d EXCEPT !.flip = [count |-> d.flip.count + 1, value |-> after,
                             state |-> d.state, held |-> now - d.since,
                             by |-> by]]

(***************************************************************************)
(* SpecWindow: a coordinator whose zone z2 has a window sensor.  The        *)
(* sensor changes state, the debounce timer fires, and full ticks run, in   *)
(* any order the clock allows: a timer fires when it is due.                *)
(***************************************************************************)

\* the last second the exploration follows: 90 seconds after the start at
\* 05:00:00 (second 18000 of the day)
MaxWindowNow == 18090

\* seconds between two operations
WinSteps == {10, 30}

WindowInputs(state) ==
    {TickInput(st, None, None, "none", [n \in Zones |-> 205],
               [n \in Zones |-> n = WinZone /\ state = "on"],
               [n \in Zones |-> NoSchedule], TRUE) : st \in WinSteps}

\* no debounce timer is due before the time t
NoTimerBefore(t) == debouncer.pending = NoPending \/ t <= debouncer.pending.due

InitWindow ==
    /\ InitCoOthersIdleButExt
    /\ maint = NotInstantiated
    /\ inflight = NotInstantiated
    /\ store = NotInstantiated
    /\ InitAuxIdle
    /\ debouncer = DebouncerNew("off", 18000 - 3600)
    /\ co = CoordinatorNew(250, 2000, 50, FALSE, 30, 0, 60)
    /\ zones = [n \in Zones |->
                  ZoneNew(210, DEFAULT_AWAY_TEMP, PIDNew(3, 0, 0, 0), n = WinZone, FALSE,
                          ValveNew("switch", "off"))]
    /\ InitCoCommon

\* the window sensor takes another state and the listener runs
WinSensorEvent ==
    \E st \in WinSteps, s \in SensorStates \ {debouncer.state} :
        LET now == co_now + st
        IN  /\ now <= MaxWindowNow
            /\ NoTimerBefore(now)
            /\ debouncer' = StateListener([debouncer EXCEPT !.state = s, !.since = now], now)
            /\ co_now' = now
            /\ co_op' = "window_event"
            /\ UNCHANGED <<co, zones, tick, heater, vmgr, NotCoVars, maint, inflight, store, auxVars>>

\* the debounce timer fires: _confirm_callback, and _on_window_change when
\* the change is confirmed
WinTimerFire ==
    /\ debouncer.pending # NoPending
    /\ LET now == debouncer.pending.due
           r == ConfirmCallback(debouncer, now)
           z == IF r.confirmed
                THEN OnWindowChange(co, zones[WinZone], r.state, now)
                ELSE zones[WinZone]
       IN  /\ now <= MaxWindowNow
           /\ zones' = [zones EXCEPT ![WinZone] = z]
           /\ debouncer' = RecordFlip(r.d, zones[WinZone].window_open, z.window_open,
                                      now, "timer")
           /\ co_now' = now
           /\ co_op' = "window_timer"
    /\ UNCHANGED <<co, tick, heater, vmgr, NotCoVars, maint, inflight, store, auxVars>>

\* a full tick, which reads the window sensor
TickWindow ==
    \E in \in WindowInputs(debouncer.state) :
        /\ tick.count < MaxTicks
        /\ co_now + in.step <= MaxWindowNow
        /\ NoTimerBefore(co_now + in.step)
        /\ CoTickCore(in)
        /\ debouncer' = RecordFlip(debouncer, zones[WinZone].window_open,
                                   zones'[WinZone].window_open, co_now', "tick")
        /\ UNCHANGED <<maint, inflight, store, auxVars>>

NextWindow == WinSensorEvent \/ WinTimerFire \/ TickWindow

SpecWindow == InitWindow /\ [][NextWindow]_vars

(***************************************************************************)
(* SpecRace: the coordinator of SpecWindow with the full tick as the event *)
(* loop runs it: from its start to the await of the heater's blocking      *)
(* service call, and from the return of that call to its end.  Sensor      *)
(* events and debounce timers run in between, for as long as the service   *)
(* call takes.  inflight holds the tick                                    *)
(* that is suspended, and the zone demands and window flags from which it   *)
(* computed max_demand and with which it decided the valves.               *)
(***************************************************************************)

\* the longest time the heater's service call takes (seconds)
MaxServiceCall == 5

\* seconds the heater's service call takes
ServiceCallSeconds == {0, MaxServiceCall}

\* the temperature zone z2 reads
RaceTemps == {195, 205}

RaceInputs(state) ==
    {TickInput(st, None, None, "none",
               [n \in Zones |-> IF n = WinZone THEN t ELSE 210],
               [n \in Zones |-> n = WinZone /\ state = "on"],
               [n \in Zones |-> NoSchedule], TRUE) :
        st \in WinSteps, t \in RaceTemps}

ZoneDemands(zs) == [n \in Zones |-> zs[n].demand]

ZoneWindows(zs) == [n \in Zones |-> zs[n].window_open]

NoInflight ==
    [active |-> FALSE, started |-> 0, in |-> TickInput(0, None, None, "none", [n \in Zones |-> None],
                                        [n \in Zones |-> FALSE],
                                        [n \in Zones |-> NoSchedule], TRUE),
     before |-> NoTick.before,
     demand |-> [n \in Zones |-> 0], window_open |-> [n \in Zones |-> FALSE],
     valve_demand |-> [n \in Zones |-> 0], valve_window_open |-> [n \in Zones |-> FALSE]]

InitRace ==
    /\ InitCoOthersIdleButExt
    /\ maint = NotInstantiated
    /\ store = NotInstantiated
    /\ InitAuxIdle
    /\ inflight = NoInflight
    /\ debouncer = DebouncerNew("off", 18000 - 3600)
    /\ co = CoordinatorNew(250, 2000, 50, FALSE, 30, 0, 60)
    /\ zones = [n \in Zones |->
                  ZoneNew(210, DEFAULT_AWAY_TEMP, PIDNew(3, 0, 0, 0), n = WinZone, FALSE,
                          ValveNew("switch", "off"))]
    /\ InitCoCommon

\* a full tick starts and runs to the heater's service call, or to the
\* exception that ends it
RaceTickBegin ==
    \E in \in RaceInputs(debouncer.state) :
        LET now == co_now + in.step
            b == AsyncUpdateDataBegin(co, zones, heater, in, now)
        IN  /\ ~inflight.active
            /\ tick.count < MaxTicks
            /\ now <= MaxWindowNow
            /\ NoTimerBefore(now)
            /\ co' = b.co
            /\ zones' = b.zones
            /\ heater' = b.heater
            /\ co_now' = now
            /\ debouncer' = RecordFlip(debouncer, zones[WinZone].window_open,
                                       b.zones[WinZone].window_open, now, "tick")
            /\ IF b.raised
               THEN /\ co_op' = "tick"
                    /\ tick' = [count |-> tick.count + 1, raised |-> TRUE, in |-> in,
                                commands |-> [n \in Zones |-> <<>>],
                                before |-> TickBefore(zones)]
                    /\ UNCHANGED inflight
               ELSE /\ co_op' = "tick_begin"
                    /\ inflight' = [inflight EXCEPT
                                       !.active = TRUE, !.started = now, !.in = in,
                                       !.before = TickBefore(zones),
                                       !.demand = ZoneDemands(b.zones),
                                       !.window_open = ZoneWindows(b.zones)]
                    /\ UNCHANGED tick
            /\ UNCHANGED <<vmgr, NotCoVars, maint, store, auxVars>>

\* the heater's service call returns and the tick runs to its end
RaceTickEnd ==
    \E d \in ServiceCallSeconds :
        LET now == inflight.started + d
            b == [raised |-> FALSE, co |-> co, heater |-> heater, zones |-> zones]
            r == AsyncUpdateDataEnd(b, zones, vmgr, inflight.in, now)
        IN  /\ inflight.active
            /\ co_now <= now
            /\ now <= MaxWindowNow
            /\ NoTimerBefore(now)
            /\ co' = r.co
            /\ zones' = r.zones
            /\ heater' = r.heater
            /\ co_now' = now
            /\ co_op' = "tick"
            /\ tick' = [count |-> tick.count + 1, raised |-> r.raised, in |-> inflight.in,
                        commands |-> r.commands, before |-> inflight.before]
            /\ inflight' = [inflight EXCEPT !.active = FALSE,
                                            !.valve_demand = ZoneDemands(zones),
                                            !.valve_window_open = ZoneWindows(zones)]
            /\ UNCHANGED <<vmgr, NotCoVars, maint, store, auxVars, debouncer>>

\* the suspended tick's service call has returned by the time t
ServiceCallAllows(t) == inflight.active => t <= inflight.started + MaxServiceCall

\* the window sensor takes another state
RaceSensorEvent == WinSensorEvent /\ ServiceCallAllows(co_now')

\* the debounce timer fires
RaceTimerFire == WinTimerFire /\ ServiceCallAllows(co_now')

NextRace == RaceTickBegin \/ RaceTickEnd \/ RaceSensorEvent \/ RaceTimerFire

SpecRace == InitRace /\ [][NextRace]_vars

(***************************************************************************)
(* SpecSensors: a coordinator whose zone temperature sensors are           *)
(* unavailable in some ticks, and whose zones were disabled at setup for   *)
(* missing entities or not.                                                *)
(***************************************************************************)

\* a zone's temperature reading: None for an unavailable sensor
SensorTemps == {None, 190, 205}

SensorInputs ==
    {TickInput(30, None, None, "none", [n \in Zones |-> IF n = "z1" THEN t1 ELSE t2],
               [n \in Zones |-> FALSE], [n \in Zones |-> NoSchedule], TRUE) :
        t1 \in SensorTemps, t2 \in SensorTemps}

InitSensors ==
    /\ InitCoOthersIdle
    /\ co = CoordinatorNew(250, 2000, 50, FALSE, 30, 0, 60)
    /\ \E disabled \in SUBSET Zones :
          zones = [n \in Zones |->
                     [ZoneNew(210, DEFAULT_AWAY_TEMP, PIDNew(3, 0, 0, 0), FALSE, FALSE,
                              ValveNew("switch", "off"))
                         EXCEPT !.disabled = n \in disabled]]
    /\ InitCoCommon

TickSensors == \E in \in SensorInputs : CoTick(in)

NextSensors == TickSensors

SpecSensors == InitSensors /\ [][NextSensors]_vars

(***************************************************************************)
(* Setup from the persisted store (store.py, __init__.py async_setup_entry *)
(* and EmsZoneMasterCoordinator._init_zones).  store holds the data loaded *)
(* from disk per zone, the zone names of the config entry, and what the    *)
(* last setup did: whether the coordinator's constructor raised, and the   *)
(* integral of the PIDController it built for each zone.  zones is the     *)
(* coordinator's self.zones: a function on the names that were added.      *)
(***************************************************************************)

\* _init_zones: max_reasonable_integral = 300.0, in tenths of a degree
MAX_REASONABLE_INTEGRAL == 3000

\* the methods of class EmsZoneMasterStore
STORE_METHODS ==
    {"async_load", "async_save", "get_warmup_factor", "set_warmup_factor",
     "get_pid_integral", "set_pid_integral", "get_manual_setpoint",
     "set_manual_setpoint", "clear_zone", "get_all_warmup_factors",
     "get_all_pid_integrals"}

\* attribute lookup on the store: a name that is no attribute of the object
\* raises AttributeError
StoreHasMethod(name) == name \in STORE_METHODS

Abs(x) == IF x < 0 THEN 0 - x ELSE x

\* _init_zones: "Restore integral from store if available, with validation",
\* on a new PIDController, whose integral is 0
RestoreIntegral(stored_integral) ==
    IF stored_integral = None THEN 0
    ELSE IF Abs(stored_integral) <= MAX_REASONABLE_INTEGRAL THEN stored_integral
    ELSE 0

\* _init_zones: one zone of the loop, when nothing raises
InitZone(st, n) ==
    LET zone_pid == [PIDNew(3, 0, 0, 0) EXCEPT
                        !.integral = RestoreIntegral(st.pid_integrals[n])]
        z == ZoneNew(210, DEFAULT_AWAY_TEMP, zone_pid, FALSE, FALSE,
                     ValveNew("switch", "off"))
        stored_warmup == st.warmup_factors[n]
        stored_manual == st.manual_setpoints[n]
    IN  [z EXCEPT !.warmup_factor = IF stored_warmup # None THEN stored_warmup ELSE @,
                  !.manual_setpoint = IF stored_manual # None THEN stored_manual ELSE @,
                  !.setpoint = IF stored_manual # None THEN stored_manual ELSE @]

\* _init_zones over the zone names config: the loop ends at the first zone
\* whose store lookup raises, after that zone's PIDController was built
InitZones(st, config) ==
    LET raises == ~StoreHasMethod("get_pid_gains")
        built == IF config = <<>> THEN {}
                 ELSE IF raises THEN {config[1]}
                 ELSE {config[i] : i \in 1..Len(config)}
        added == IF raises THEN {} ELSE built
    IN  [raised |-> raises /\ config # <<>>,
         zones |-> [n \in added |-> InitZone(st, n)],
         built |-> [n \in Zones |-> IF n \in built
                                    THEN RestoreIntegral(st.pid_integrals[n])
                                    ELSE None]]

(***************************************************************************)
(* SpecRestore: a config entry with none, one or two zones is set up from  *)
(* a store file that holds any of the stored integrals for each zone.      *)
(***************************************************************************)

\* the value stored as a zone's PID integral: None when absent
StoredIntegrals == {None, 0 - 3010, 0 - 3000, 0, 1200, 3000, 3010}

\* the zone names of the config entry, in order
ZoneConfigs == {<<>>, <<"z1">>, <<"z1", "z2">>}

InitRestore ==
    /\ InitCoOthersIdleButExt
    /\ InitAuxIdle
    /\ maint = NotInstantiated
    /\ debouncer = NotInstantiated
    /\ inflight = NotInstantiated
    /\ \E i1 \in StoredIntegrals, i2 \in StoredIntegrals, config \in ZoneConfigs,
          stored_manual \in {None, 220} :
          store = [pid_integrals |-> [n \in Zones |-> IF n = "z1" THEN i1 ELSE i2],
                   warmup_factors |-> [n \in Zones |-> None],
                   manual_setpoints |-> [n \in Zones |-> stored_manual],
                   config |-> config, raised |-> FALSE,
                   built |-> [n \in Zones |-> None]]
    /\ co = NotInstantiated
    /\ zones = [n \in {} |-> None]
    /\ heater = NotInstantiated
    /\ vmgr = NotInstantiated
    /\ co_now = 18000
    /\ co_op = "init"
    /\ tick = NoTick

\* async_setup_entry up to the coordinator's construction
SetupEntry ==
    LET r == InitZones(store, store.config)
    IN  /\ co_op = "init"
        /\ store' = [store EXCEPT !.raised = r.raised, !.built = r.built]
        /\ zones' = r.zones
        /\ IF r.raised
           THEN UNCHANGED <<co, heater, vmgr>>
           ELSE /\ co' = CoordinatorNew(250, 2000, 50, FALSE, 30, 0, 60)
                /\ heater' = HeaterNew(250, 550, 20, 0, 60)
                /\ vmgr' = ValveManagerNew(DEFAULT_VALVE_MIN_ON_TIME,
                                           DEFAULT_VALVE_MIN_OFF_TIME)
        /\ co_op' = "setup"
        /\ UNCHANGED <<co_now, tick, NotCoVars, maint, debouncer, inflight, auxVars>>

NextRestore == SetupEntry

SpecRestore == InitRestore /\ [][NextRestore]_vars

(***************************************************************************)
(* SpecSolar: a coordinator with a solar power sensor and a solar          *)
(* threshold of 2000 W.  Zone z1 uses the global solar drop of 3.0         *)
(* degrees, zone z2 has its own drop of 1.0 degree or of 0; both have      *)
(* window sensors.                                                         *)
(***************************************************************************)

\* the solar power reading: None for an unavailable sensor
SolarReadings == {None, 1500, 2000, 2500}

\* the solar drop configured for zone z2
ZoneSolarDrops == {0, 10}

SolarInputs ==
    {[TickInput(30, None, None, "none", [n \in Zones |-> t],
                [n \in Zones |-> n \in open], [n \in Zones |-> NoSchedule], TRUE)
         EXCEPT !.solar_power = sp] :
        t \in {120, 190}, open \in SUBSET Zones, sp \in SolarReadings}

InitSolar ==
    /\ InitCoOthersIdle
    /\ co = CoordinatorNew(250, 2000, 30, FALSE, 30, 0, 60)
    /\ \E zone_drop \in ZoneSolarDrops :
          zones = [n \in Zones |->
                     [ZoneNew(210, DEFAULT_AWAY_TEMP, PIDNew(1, 0, 0, 0), TRUE, FALSE,
                              ValveNew("switch", "off"))
                         EXCEPT !.solar_drop = IF n = "z2" THEN zone_drop ELSE None]]
    /\ InitCoCommon

TickSolar == \E in \in SolarInputs : CoTick(in)

NextSolar == TickSolar

SpecSolar == InitSolar /\ [][NextSolar]_vars

(***************************************************************************)
(* SpecSchedule: an ems_zone_master ScheduleReader whose schedule entity   *)
(* is edited, removed and restored, and which is queried at chosen times   *)
(* of a week.                                                              *)
(***************************************************************************)

\* hh:mm as seconds of the day
Clock(h, mi) == h * 3600 + mi * 60

\* a week with the same blocks on the given days and none on the others
WeekOf(days, blocks) == [d \in 0..6 |-> IF d \in days THEN blocks ELSE <<>>]

\* the Monday block 07:00-09:00 with temp 21
MondayMorning == WeekOf({0}, <<<<Clock(7, 0), Clock(9, 0), 210>>>>)

\* the overnight block 22:00-06:00 on every day
EveryNight == WeekOf(0..6, <<<<Clock(22, 0), Clock(6, 0), 210>>>>)

SrWeeks ==
    {WeekOf({}, <<>>),
     MondayMorning,
     WeekOf({2}, <<<<Clock(17, 0), Clock(21, 0), 210>>,
                   <<Clock(7, 0), Clock(9, 0), 195>>>>),
     WeekOf({0}, <<<<None, Clock(9, 0), 210>>, <<Clock(7, 0), Clock(9, 0), None>>>>),
     EveryNight,
     WeekOf({0, 1}, <<<<Clock(7, 0), Clock(9, 0), 210>>,
                      <<Clock(22, 0), Clock(6, 0), 195>>>>)}

\* <<default_setpoint, active_setpoint>>
SrSetpoints == {<<180, 210>>, <<210, 210>>}

SrDays == {0, 1, 2, 6}

SrClocks ==
    {Clock(5, 0), Clock(6, 59), Clock(7, 0), Clock(8, 0), Clock(9, 0), Clock(12, 0),
     Clock(23, 0)}

SrTimes == {d * SecondsPerDay + t : d \in SrDays, t \in SrClocks}

InitSchedule ==
    /\ InitExtIdle
    /\ InitPIDIdle
    /\ InitHeaterIdle
    /\ InitValveIdle
    /\ InitCoIdle
    /\ \E w \in SrWeeks, sp \in SrSetpoints : sreader = EmsReaderNew(w, sp[1], sp[2])
    /\ sr_op = "init"
    /\ sr_call = [now |-> 0, setpoint |-> None, block_temperature |-> None,
                  active |-> FALSE,
                  next_event |-> NoEvent, time_to_next_active |-> None]

\* the user edits the blocks of the schedule entity
SREdit ==
    \E w \in SrWeeks :
        /\ sreader' = [sreader EXCEPT !.week = w]
        /\ sr_op' = "edit"
        /\ UNCHANGED <<sr_call, NotSrVars>>

\* the schedule entity is removed from, or restored to, the state machine
SRToggleEntity ==
    /\ sreader' = [sreader EXCEPT !.exists = ~@]
    /\ sr_op' = "edit"
    /\ UNCHANGED <<sr_call, NotSrVars>>

\* a caller queries the reader at the time now
SRQuery ==
    \E now \in SrTimes :
        /\ sr_call' = [now |-> now,
                       setpoint |-> EmsGetCurrentSetpoint(sreader, now),
                       block_temperature |->
                           GetBlockTemperature(sreader.week,
                                               sreader.default_setpoint, now),
                       active |-> EmsIsScheduleActive(sreader, now),
                       next_event |-> EmsGetNextEvent(sreader, now),
                       time_to_next_active |-> EmsGetTimeToNextActive(sreader, now)]
        /\ sr_op' = "query"
        /\ UNCHANGED <<sreader, NotSrVars>>

NextSchedule == SREdit \/ SRToggleEntity \/ SRQuery

SpecSchedule == InitSchedule /\ [][NextSchedule]_vars

\* C4: every output returned by PIDController.update lies in [0, 100], for
\* every gain setting, internal state and argument tuple (dt <= 0 included).
C4_OutputInRange ==
    /\ pid.last_output >= MIN_OUTPUT
    /\ pid.last_output <= MAX_OUTPUT

\* an update() call with dt <= 0 whose unclamped output is above 100
C4_Witness ==
    /\ pid_op = "update"
    /\ pid_call.dt <= 0
    /\ pid_call.raw > MAX_OUTPUT
    /\ pid.last_output = MAX_OUTPUT

\* an update() call whose unclamped output is below 0
C4_WitnessLow ==
    /\ pid_op = "update"
    /\ pid_call.raw < MIN_OUTPUT
    /\ pid.last_output = MIN_OUTPUT

\* C5: an update() call with a positive error whose returned output is
\* saturated at 100 leaves the integral no larger than it was before the call.
C5_NoWindupWhileSaturated ==
    (/\ pid_op = "update"
     /\ pid_call.setpoint - pid_call.pv > 0
     /\ pid.last_output = MAX_OUTPUT)
        => pid.integral <= pid_call.integral_before

\* C5 restricted to calls without derivative action and without outdoor
\* compensation (kd = 0 and ke = 0): there the plateau holds
C5_PlateauWithoutDAndKe ==
    (/\ pid_op = "update"
     /\ pid.kd = 0 /\ pid.ke = 0
     /\ pid_call.setpoint - pid_call.pv > 0
     /\ pid.last_output = MAX_OUTPUT)
        => pid.integral <= pid_call.integral_before

\* the last operation was a calculate_target_flow_temp call that returned
HcReturned == hc_op = "calculate" /\ ~hc_call.raised

\* C1: every calculate_target_flow_temp call that returns cooldown_active = true
\* returns target 0, whatever max_demand and the burner run-time state are.
C1_CooldownForcesOff ==
    (HcReturned /\ hc_call.cooldown_active) => hc_call.target = 0

\* C1 outside the burner's minimum run time: the target is 0
C1_CooldownOffAfterMinRuntime ==
    (/\ HcReturned
     /\ hc_call.cooldown_active
     /\ \/ hc_call.before.burner_started_at = None
        \/ hc_call.now - hc_call.before.burner_started_at
               >= DEFAULT_MIN_BURNER_RUNTIME * 60)
        => hc_call.target = 0

\* the effective maximum flow temperature as section 4.5 states it
C10_EffectiveMaxEgress ==
    LET h == hc_call.before
        quiet_max == Max(h.quiet_mode_max_flow, h.min_egress)
        elapsed == hc_call.now - hc_call.first_block_start_time
    IN  IF ~hc_call.quiet_mode_active \/ hc_call.first_block_start_time = None
        THEN h.max_egress
        ELSE IF elapsed >= h.quiet_mode_ramp_minutes * 60
        THEN h.max_egress
        ELSE quiet_max
             + (elapsed * (h.max_egress - quiet_max)) \div (h.quiet_mode_ramp_minutes * 60)

C10_CurveValue ==
    hc_call.before.min_egress
    + (hc_call.max_demand * (C10_EffectiveMaxEgress - hc_call.before.min_egress))
      \div 100

\* C10 as claimed: outside cooldown and with max_demand at or above the
\* ignition threshold the returned target is the demand-curve value.
C10_DemandCurve ==
    (/\ HcReturned
     /\ ~hc_call.cooldown_active
     /\ hc_call.max_demand >= hc_call.before.min_ignition_level)
        => hc_call.target = C10_CurveValue

\* C10 amended: outside cooldown, with max_demand at or above the ignition
\* threshold and the burner not inside its minimum off time, the returned
\* target is the demand-curve value (max_egress at max_demand = 100 with quiet
\* mode off).
C10_DemandCurveOutsideMinOff ==
    (/\ HcReturned
     /\ ~hc_call.cooldown_active
     /\ hc_call.max_demand >= hc_call.before.min_ignition_level
     /\ \/ hc_call.before.burner_stopped_at = None
        \/ hc_call.now - hc_call.before.burner_stopped_at
               >= DEFAULT_MIN_BURNER_OFF_TIME * 60)
        => /\ hc_call.target = C10_CurveValue
           /\ (hc_call.max_demand = 100 /\ ~hc_call.quiet_mode_active)
                  => hc_call.target = hc_call.before.max_egress

\* a returning call at full demand after the minimum off time has passed
C10_Witness ==
    /\ HcReturned
    /\ ~hc_call.cooldown_active
    /\ hc_call.max_demand = 100
    /\ ~hc_call.quiet_mode_active
    /\ hc_call.before.burner_stopped_at # None
    /\ hc_call.target = 550

\* a returning call inside the quiet-mode ramp
C10_WitnessQuiet ==
    /\ HcReturned
    /\ ~hc_call.cooldown_active
    /\ hc_call.max_demand = 100
    /\ hc_call.quiet_mode_active
    /\ hc_call.target > 350 /\ hc_call.target < 550

\* the last operation was a set_valve_state call on an existing switch or
\* climate entity
VmCalled ==
    /\ vm_op = "set_valve_state"
    /\ vm_call.before.state # "none"
    /\ vm_call.before.domain \in {"switch", "climate"}

\* the request that reaches the anti-cycling logic: should_open after the
\* cooldown gate of set_valve_state
VmOpenRequest == vm_call.should_open /\ ~vm_call.cooldown_active

VmOpenCommands == {"switch.turn_on", "climate.set_hvac_mode.heat"}

VmCloseCommands == {"switch.turn_off", "climate.set_hvac_mode.off"}

VmIssued(cmds) == \E i \in 1..Len(vm_call.commands) : vm_call.commands[i] \in cmds

\* the entity counted as open / closed by the manager before the call
VmWasOpen ==
    IF vm_call.before.domain = "switch" THEN vm_call.before.state = "on"
    ELSE vm_call.before.state \notin {"off", "unavailable"}

VmWasHeating ==
    IF vm_call.before.domain = "switch" THEN vm_call.before.state = "on"
    ELSE vm_call.before.state = "heat"

VmSinceOpened == vm_call.now - vm_call.before.valve_opened_at

VmSinceClosed == vm_call.now - vm_call.before.valve_closed_at

\* C3: anti-cycling.  A close request less than min_on_time minutes after the
\* manager opened the valve issues no close command and leaves valve_opened_at
\* and valve_closed_at unchanged; a close request at or after min_on_time on an
\* open valve issues the close command and records valve_closed_at.  An open
\* request less than min_off_time minutes after the manager closed the valve
\* issues no open command and leaves the timestamps unchanged; one at or after
\* min_off_time on a valve that is not open issues the open command and
\* records valve_opened_at.
C3_AntiCycling ==
    VmCalled =>
        /\ (/\ ~VmOpenRequest
            /\ vm_call.before.valve_opened_at # None
            /\ VmSinceOpened < vmgr.min_on_time * 60)
              => /\ ~VmIssued(VmCloseCommands)
                 /\ valve.valve_opened_at = vm_call.before.valve_opened_at
                 /\ valve.valve_closed_at = vm_call.before.valve_closed_at
                 /\ valve.state = vm_call.before.state
        /\ (/\ ~VmOpenRequest
            /\ vm_call.before.valve_opened_at # None
            /\ VmSinceOpened >= vmgr.min_on_time * 60
            /\ VmWasOpen)
              => /\ VmIssued(VmCloseCommands)
                 /\ valve.valve_closed_at = vm_call.now
        /\ (/\ VmOpenRequest
            /\ vm_call.before.valve_closed_at # None
            /\ VmSinceClosed < vmgr.min_off_time * 60)
              => /\ ~VmIssued(VmOpenCommands)
                 /\ valve.valve_opened_at = vm_call.before.valve_opened_at
                 /\ valve.valve_closed_at = vm_call.before.valve_closed_at
                 /\ valve.state = vm_call.before.state
        /\ (/\ VmOpenRequest
            /\ vm_call.before.valve_closed_at # None
            /\ VmSinceClosed >= vmgr.min_off_time * 60
            /\ ~VmWasHeating)
              => /\ VmIssued(VmOpenCommands)
                 /\ valve.valve_opened_at = vm_call.now

\* a close request one minute after the manager opened the valve was
\* suppressed while the valve is on
C3_Witness ==
    /\ VmCalled
    /\ ~VmOpenRequest
    /\ vmgr.min_on_time = 5
    /\ vm_call.before.valve_opened_at # None
    /\ VmSinceOpened = 60
    /\ VmWasOpen
    /\ vm_call.commands = <<>>

\* a close request five minutes after the manager opened the valve closed it
C3_WitnessCloseAfterMinOn ==
    /\ VmCalled
    /\ ~VmOpenRequest
    /\ vmgr.min_on_time = 5
    /\ vm_call.before.valve_opened_at # None
    /\ VmSinceOpened = 300
    /\ VmIssued(VmCloseCommands)
    /\ valve.state = "off"

\* an open request one minute after the manager closed the valve was suppressed
C3_WitnessOpenSuppressed ==
    /\ VmCalled
    /\ VmOpenRequest
    /\ vmgr.min_off_time = 5
    /\ vm_call.before.valve_closed_at # None
    /\ VmSinceClosed = 60
    /\ ~VmWasHeating
    /\ vm_call.commands = <<>>

\* an open request five minutes after the manager closed the valve opened it
C3_WitnessOpenAfterMinOff ==
    /\ VmCalled
    /\ VmOpenRequest
    /\ vmgr.min_off_time = 5
    /\ vm_call.before.valve_closed_at # None
    /\ VmSinceClosed = 300
    /\ VmIssued(VmOpenCommands)
    /\ valve.state \in {"on", "heat"}

\* C2: in every reachable state of the coordinator (the initial state and
\* after any sequence of full ticks, with or without quiet mode, cooldown and
\* burner timers) target_flow_temp is 0 or lies in [min_egress, max_egress].
C2_TargetInRange ==
    \/ co.target_flow_temp = 0
    \/ /\ heater.min_egress <= co.target_flow_temp
       /\ co.target_flow_temp <= heater.max_egress

\* the last operation was a full tick: the state is the end of that tick
TickEnded == co_op = "tick"

\* C6: at the end of every full tick during which away mode is active, every
\* enabled zone with a temperature reading has setpoint = away_temp and
\* adaptive_start_active = FALSE, whatever its manual setpoint, schedule
\* state, block temperature and sync_forced flag are.
C6_AwayPriority ==
    (TickEnded /\ co.away_mode_active)
        => \A n \in Zones :
              (~zones[n].disabled /\ zones[n].current_temp # None)
                  => /\ zones[n].setpoint = zones[n].away_temp
                     /\ ~zones[n].adaptive_start_active

\* a tick in away mode on a zone that holds a manual setpoint of 22.0 and
\* whose schedule is in a block of 21.0: the setpoint is the away temperature
C6_Witness ==
    /\ TickEnded
    /\ co.away_mode_active
    /\ zones["z1"].current_temp # None
    /\ zones["z1"].manual_setpoint = 220
    /\ IsScheduleActive(tick.in.sched["z1"])
    /\ tick.in.sched["z1"].temp = 210
    /\ zones["z1"].setpoint = DEFAULT_AWAY_TEMP

\* the zone entered the tick with a manual setpoint recorded against a
\* schedule state
C7_ManualRecorded(n) ==
    /\ zones[n].has_schedule
    /\ tick.before[n].manual_setpoint # None
    /\ tick.before[n].manual_setpoint_schedule_state # None

\* C7: a manual setpoint set on a zone with a schedule while the schedule was
\* in state s is cleared (with its recorded state) on the first tick at which
\* the schedule's state differs from s, and the setpoint reverts to the
\* schedule/default value; on a tick at which the state still equals s the
\* manual setpoint is kept and, outside away mode, the setpoint equals it.
C7_ManualExpiry ==
    TickEnded =>
        \A n \in Zones :
            C7_ManualRecorded(n) =>
                IF BoolValue(IsScheduleActive(tick.in.sched[n]))
                       # tick.before[n].manual_setpoint_schedule_state
                THEN /\ zones[n].manual_setpoint = None
                     /\ zones[n].manual_setpoint_schedule_state = None
                     /\ ~co.away_mode_active
                            => zones[n].setpoint
                                   = GetCurrentSetpoint(tick.in.sched[n], zones[n].default_setpoint)
                ELSE /\ zones[n].manual_setpoint = tick.before[n].manual_setpoint
                     /\ ~co.away_mode_active
                            => zones[n].setpoint = zones[n].manual_setpoint

\* 100 * the required preheat start of zone n in the tick that has ended:
\* the start of its next block minus (target - current) * warmup_factor
\* minutes, in seconds
RequiredStart(n) ==
    tick.in.sched[n].next_event * 100
    - (tick.in.sched[n].next_temp - tick.in.temp[n]) * tick.before[n].warmup_factor * 6

\* zone n entered the tick with an inactive schedule, no manual override and
\* a known temperature below its next block's target
PreheatPending(n) ==
    /\ zones[n].has_schedule
    /\ tick.in.sched[n].state = "off"
    /\ tick.in.sched[n].next_event # None
    /\ tick.in.sched[n].next_temp # None
    /\ tick.before[n].manual_setpoint = None
    /\ tick.in.temp[n] # None
    /\ tick.in.temp[n] < tick.in.sched[n].next_temp

\* the required preheat start of zone n falls in [now, now + 45 min]
StartsInWindow(n) ==
    /\ co_now * 100 <= RequiredStart(n)
    /\ RequiredStart(n) <= (co_now + SYNC_LOOK_AHEAD * 60) * 100

\* C8: when two zones with inactive schedules, no manual override and a
\* temperature below the next block's target have required preheat starts
\* that both fall in [now, now + 45 min], the tick leaves the zone with the
\* later start sync_forced, preheating to its next block's target, and the
\* zone with the earliest start not sync_forced.
C8_Synchronization ==
    TickEnded =>
        \A a, b \in Zones :
            (/\ PreheatPending(a) /\ StartsInWindow(a)
             /\ PreheatPending(b) /\ StartsInWindow(b)
             /\ RequiredStart(a) < RequiredStart(b))
                => /\ zones[b].sync_forced
                   /\ zones[b].adaptive_start_active
                   /\ zones[b].setpoint = tick.in.sched[b].next_temp
                   /\ ~zones[a].sync_forced

\* C9: for an enabled zone with a reading, outside away mode, without manual
\* setpoint and not sync_forced, whose schedule is inactive with an upcoming
\* block of temperature T > current_temp, a tick sets adaptive_start_active
\* and setpoint = T exactly when time_to_active <= (T - current_temp) *
\* warmup_factor minutes, and otherwise leaves the flag false and the
\* setpoint at the setback/default value.
C9_AdaptiveStart ==
    TickEnded =>
        \A n \in Zones :
            (/\ PreheatPending(n)
             /\ ~zones[n].disabled
             /\ ~co.away_mode_active
             /\ ~zones[n].sync_forced)
                => IF GetTimeToNextActive(tick.in.sched[n], co_now) * 100
                          <= tick.in.sched[n].next_event * 100 - RequiredStart(n)
                   THEN /\ zones[n].adaptive_start_active
                        /\ zones[n].setpoint = tick.in.sched[n].next_temp
                   ELSE /\ ~zones[n].adaptive_start_active
                        /\ zones[n].setpoint = zones[n].default_setpoint

\* the targets section 8 lists for min_egress = 25, max_egress = 55 and
\* min_ignition_level = 20
C11_Targets ==
    /\ hc_call.max_demand = hc_call.before.min_ignition_level
           => hc_call.target = hc_call.before.min_egress
    /\ hc_call.max_demand = 19 => hc_call.target = 0
    /\ hc_call.max_demand = 20 => hc_call.target = 250
    /\ hc_call.max_demand = 60 => hc_call.target = 430
    /\ hc_call.max_demand = 100 => hc_call.target = 550

\* C11 as claimed: with the heater previously off and no cooldown, max_demand
\* equal to min_ignition_level yields min_egress (20 gives 25.0), 19 gives 0,
\* 60 gives 43.0 and 100 gives 55.0.
C11_CurveBoundary ==
    (/\ HcReturned
     /\ ~hc_call.before.heater_was_active
     /\ ~hc_call.cooldown_active)
        => C11_Targets

\* the targets the demand curve gives: at the ignition threshold the target
\* is min_egress + (min_ignition_level / 100) * (max_egress - min_egress)
C11_CurveTargets ==
    /\ hc_call.max_demand = hc_call.before.min_ignition_level
           => hc_call.target
                  = hc_call.before.min_egress
                    + (hc_call.before.min_ignition_level
                       * (hc_call.before.max_egress - hc_call.before.min_egress)) \div 100
    /\ hc_call.max_demand = 19 => hc_call.target = 0
    /\ hc_call.max_demand = 20 => hc_call.target = 310
    /\ hc_call.max_demand = 60 => hc_call.target = 430
    /\ hc_call.max_demand = 100 => hc_call.target = 550

\* C11 amended: with the heater previously off, no cooldown, quiet mode
\* inactive and the burner not inside its minimum off time, max_demand equal
\* to min_ignition_level yields the curve value (20 gives 31.0), 19 gives 0,
\* 60 gives 43.0 and 100 gives 55.0.
C11_CurveBoundaryOutsideMinOff ==
    (/\ HcReturned
     /\ ~hc_call.before.heater_was_active
     /\ ~hc_call.cooldown_active
     /\ ~hc_call.quiet_mode_active
     /\ \/ hc_call.before.burner_stopped_at = None
        \/ hc_call.now - hc_call.before.burner_stopped_at
               >= hc_call.before.min_burner_off_time * 60)
        => C11_CurveTargets

\* a call at exactly the ignition threshold, the heater off since more than
\* the minimum off time, that returns the curve value 31.0
C11_Witness ==
    /\ HcReturned
    /\ ~hc_call.before.heater_was_active
    /\ hc_call.before.burner_stopped_at # None
    /\ ~hc_call.cooldown_active
    /\ ~hc_call.quiet_mode_active
    /\ hc_call.max_demand = 20
    /\ hc_call.target = 310

\* C12: every calculate_target_flow_temp call with max_demand below
\* min_ignition_level returns target 0, whatever the previous heater state
\* and the burner run-time state are.
C12_BelowIgnitionOff ==
    (HcReturned /\ hc_call.max_demand < hc_call.before.min_ignition_level)
        => hc_call.target = 0

\* C12 outside the burner's minimum run time: the target is 0
C12_BelowIgnitionOffAfterMinRuntime ==
    (/\ HcReturned
     /\ hc_call.max_demand < hc_call.before.min_ignition_level
     /\ \/ hc_call.before.burner_started_at = None
        \/ hc_call.now - hc_call.before.burner_started_at
               >= hc_call.before.min_burner_runtime * 60)
        => hc_call.target = 0

\* the tick that has ended completed a warmup cycle of zone n with a
\* temperature rise above 0.5 degrees
WarmupCompleted(n) ==
    /\ TickEnded
    /\ tick.before[n].warmup_started_at # None
    /\ tick.before[n].warmup_start_temp # None
    /\ zones[n].warmup_started_at = None
    /\ zones[n].current_temp # None
    /\ zones[n].current_temp - tick.before[n].warmup_start_temp > 5
    /\ zones[n].setpoint - zones[n].current_temp <= 2

\* 100 * elapsed minutes / temp_rise of the cycle the tick completed, as a
\* fraction <<numerator, denominator>>
WarmupMeasured(n) ==
    <<(co_now - tick.before[n].warmup_started_at) * 1000,
      60 * (zones[n].current_temp - tick.before[n].warmup_start_temp)>>

\* |a - b|
Gap(a, b) == IF a >= b THEN a - b ELSE b - a

\* C13: a completed warmup cycle with temp_rise > 0.5 sets warmup_factor to
\* 0.3 * measured + 0.7 * old, with measured = elapsed_minutes / temp_rise;
\* in a cycle with measured = 10 the distance of warmup_factor from 10 does
\* not grow, shrinks by at least 30 percent, and warmup_factor does not
\* cross 10.
C13_WarmupLearning ==
    \A n \in Zones :
        WarmupCompleted(n) =>
            LET old == tick.before[n].warmup_factor
                new == zones[n].warmup_factor
                measured == WarmupMeasured(n)
            IN  /\ 10 * new * measured[2] = 3 * measured[1] + 7 * old * measured[2]
                /\ measured[1] = 1000 * measured[2]
                       => /\ Gap(new, 1000) <= Gap(old, 1000)
                          /\ 10 * Gap(new, 1000) <= 7 * Gap(old, 1000)
                          /\ old >= 1000 => new >= 1000
                          /\ old <= 1000 => new <= 1000

\* a third successive cycle of 20 minutes for 2.0 degrees on a zone that
\* started from 30 minutes per degree: 30 -> 24 -> 19.8 -> 16.86
C13_Witness ==
    /\ WarmupCompleted("z1")
    /\ WarmupMeasured("z1") = <<1200000, 1200>>
    /\ tick.before["z1"].warmup_factor = 1980
    /\ zones["z1"].warmup_factor = 1686

\* a cycle with measured = 10 on a zone that started below 10
C13_WitnessBelow ==
    /\ WarmupCompleted("z1")
    /\ WarmupMeasured("z1") = <<1200000, 1200>>
    /\ tick.before["z1"].warmup_factor = 0
    /\ zones["z1"].warmup_factor = 300

\* the reader has just answered a query
SrAnswered == sr_op = "query"

\* a block contains a time of day: a same-day block from its start up to,
\* not including, its end; an overnight block from its start on or before its end
Contains(b, t) ==
    /\ b[1] # None
    /\ b[2] # None
    /\ IF b[1] > b[2] THEN t >= b[1] \/ t < b[2] ELSE b[1] <= t /\ t < b[2]

\* the blocks of the weekday of now that contain now
BlocksAt(r, now) ==
    {i \in 1..Len(r.week[Weekday(now)]) :
        Contains(r.week[Weekday(now)][i], TimeOfDay(now))}

\* now is in some block of the schedule entity
InSomeBlock(r, now) == r.exists /\ BlocksAt(r, now) # {}

\* C14: get_current_setpoint(now) returns the temperature of the block
\* containing now on now's weekday (the active setpoint of the ems_zone_master
\* reader, the data temp of the first containing block in heating_pid, with
\* the default standing in for a missing temp), the end of a same-day block
\* excluded, and the default setpoint (None from _get_block_temperature) when
\* now is in no block; for the Monday block 07:00-09:00 with temp 21 and
\* default 18 that is 21 at 08:00 and 18 at 06:59 and at 09:00.
C14_ScheduleSetpoint ==
    SrAnswered =>
        LET r == sreader
            now == sr_call.now
            blocks == r.week[Weekday(now)]
            at == BlocksAt(r, now)
            first == CHOOSE i \in at : \A k \in at : i <= k
        IN  /\ sr_call.setpoint =
                   IF InSomeBlock(r, now) THEN r.active_setpoint
                   ELSE r.default_setpoint
            /\ sr_call.block_temperature =
                   IF at = {} THEN None
                   ELSE IF blocks[first][3] # None THEN blocks[first][3]
                   ELSE r.default_setpoint
            /\ (r = EmsReaderNew(MondayMorning, 180, 210) /\ now = Clock(8, 0))
                   => sr_call.setpoint = 210 /\ sr_call.block_temperature = 210
            /\ (r = EmsReaderNew(MondayMorning, 180, 210)
                /\ now \in {Clock(6, 59), Clock(9, 0)})
                   => sr_call.setpoint = 180 /\ sr_call.block_temperature = None

\* the Monday block 07:00-09:00 is asked at its end, 09:00
C14_Witness ==
    /\ SrAnswered
    /\ sreader = EmsReaderNew(MondayMorning, 180, 210)
    /\ sr_call.now = Clock(9, 0)
    /\ sr_call.setpoint = 180

\* the Monday block 07:00-09:00 is asked inside, at 08:00
C14_WitnessInside ==
    /\ SrAnswered
    /\ sreader = EmsReaderNew(MondayMorning, 180, 210)
    /\ sr_call.now = Clock(8, 0)
    /\ sr_call.setpoint = 210

\* C15: is_schedule_active(now) is true if and only if now falls inside some
\* block of now's weekday, for every combination of default and block
\* setpoints; with the overnight block 22:00-06:00 it is true at 23:00 and at
\* 05:00 and false at 12:00.
C15_ActiveIffInBlock ==
    SrAnswered =>
        /\ sr_call.active <=> InSomeBlock(sreader, sr_call.now)
        /\ (sreader.exists /\ sreader.week = EveryNight)
               => /\ TimeOfDay(sr_call.now) \in {Clock(23, 0), Clock(5, 0)}
                      => sr_call.active
                  /\ TimeOfDay(sr_call.now) = Clock(12, 0) => ~sr_call.active

\* is_schedule_active agrees with the blocks when the two setpoints differ
C15_ActiveIffInBlockDistinctSetpoints ==
    (SrAnswered /\ sreader.default_setpoint # sreader.active_setpoint) =>
        (sr_call.active <=> InSomeBlock(sreader, sr_call.now))

\* the least element of a non-empty set of integers
Least(S) == CHOOSE x \in S : \A y \in S : x <= y

\* the event get_next_event is said to return: the first of today's sorted
\* events after now, else the first event of the nearest of the 6 following
\* days that has events, else none
ExpectedNextEvent(r, now) ==
    LET events == EmsParseScheduleEvents(r, now)
        later == {i \in 1..Len(events) : events[i].time > TimeOfDay(now)}
        days == {d \in 1..6 : EmsParseScheduleEvents(r, now + d * SecondsPerDay) # <<>>}
    IN  IF later # {} THEN events[Least(later)]
        ELSE IF days # {}
        THEN EmsParseScheduleEvents(r, now + Least(days) * SecondsPerDay)[1]
        ELSE NoEvent

\* C16: get_next_event(now) returns the earliest event strictly after now:
\* today's remaining time-sorted events first and, when today has none left
\* or none at all, the first event of the nearest following day that has
\* events, up to 6 more days ahead; null only when none of those days has one.
C16_NextEvent ==
    (SrAnswered /\ sreader.exists) =>
        sr_call.next_event = ExpectedNextEvent(sreader, sr_call.now)

\* get_next_event is as described when today still has an event to come
C16_NextEventToday ==
    (SrAnswered /\ sreader.exists) =>
        LET events == EmsParseScheduleEvents(sreader, sr_call.now)
        IN  (\E i \in 1..Len(events) : events[i].time > TimeOfDay(sr_call.now))
                => sr_call.next_event = ExpectedNextEvent(sreader, sr_call.now)

\* the elements of a sequence
Range(seq) == {seq[i] : i \in 1..Len(seq)}

\* the starts of valid blocks that lie after now and at most 7 days ahead
FutureStarts(r, now) ==
    LET starts(d) ==
            {DateOf(now + d * SecondsPerDay) * SecondsPerDay + b[1] :
                b \in {x \in Range(r.week[Weekday(now + d * SecondsPerDay)]) :
                         x[1] # None /\ x[2] # None}}
    IN  {s \in UNION {starts(d) : d \in 0..7} :
            s > now /\ s <= now + 7 * SecondsPerDay}

\* the week has at least one valid block
HasValidBlock(r) ==
    \E d \in 0..6 : \E i \in 1..Len(r.week[d]) :
        r.week[d][i][1] # None /\ r.week[d][i][2] # None

\* C17: get_time_to_next_active(now) returns the strictly positive duration
\* from now to the earliest block start strictly in the future within the
\* next 7 days; with at least one valid block in the week it never returns
\* null, also when the only block is on today's weekday and has started.
C17_TimeToNextActive ==
    (SrAnswered /\ sreader.exists /\ HasValidBlock(sreader)) =>
        /\ sr_call.time_to_next_active # None
        /\ sr_call.time_to_next_active > 0
        /\ sr_call.time_to_next_active = Least(FutureStarts(sreader, sr_call.now)) - sr_call.now

\* whenever get_time_to_next_active returns a duration, it is the described one
C17_TimeToNextActiveWhenFound ==
    (SrAnswered /\ sreader.exists /\ sr_call.time_to_next_active # None) =>
        /\ sr_call.time_to_next_active > 0
        /\ sr_call.time_to_next_active = Least(FutureStarts(sreader, sr_call.now)) - sr_call.now

\* C18: two PID controllers with the same gains and the same initial state,
\* given the same sequence of (setpoint, process value, outdoor_temp, dt) with
\* dt supplied, return the same output and hold the same integral after every
\* call, whatever the clock readings of the calls are.
C18_Determinism ==
    /\ pid.last_output = pid_twin.last_output
    /\ pid.integral = pid_twin.integral

\* the two controllers were called at different clock readings, with a dt
\* that moved the integral and an output strictly inside the limits
C18_Witness ==
    /\ pid_op = "update"
    /\ pid.last_time # pid_twin.last_time
    /\ pid_call.dt = 30
    /\ pid.integral # pid_call.integral_before
    /\ pid.last_output > MIN_OUTPUT
    /\ pid.last_output < MAX_OUTPUT

\* C19: a set_valve_state call of the tick's valve control that is made while
\* cooldown is active issues no open command (switch.turn_on, climate
\* set_hvac_mode heat) and records no opening, whatever should_open says.
C19_NoOpenInCooldown ==
    (vm_op = "set_valve_state" /\ vm_call.cooldown_active) =>
        /\ ~VmIssued(VmOpenCommands)
        /\ valve.valve_opened_at = vm_call.before.valve_opened_at
        /\ valve.state \in {vm_call.before.state, "off"}

\* during cooldown an open was asked for a closed valve whose minimum off
\* time does not hold it back, and nothing was sent
C19_Witness ==
    /\ VmCalled
    /\ vm_call.cooldown_active
    /\ vm_call.should_open
    /\ ~VmWasOpen
    /\ ~OpenSuppressed(vmgr, vm_call.before, vm_call.now)
    /\ vm_call.commands = <<>>
    /\ valve.state = "off"

\* a full tick ran its valve control while the coordinator's cooldown flag
\* was set
C19_CooldownTick == co_op = "tick" /\ ~tick.raised /\ co.cooldown_active

\* no full tick gets as far as valve control with the cooldown flag set
C19_NoCooldownTick == ~C19_CooldownTick

\* the full tick that just ended ran in the maintenance hour
InMaintenanceHour == TimeOfDay(co_now) \div 3600 = VALVE_MAINTENANCE_HOUR

\* the valve of zone n got no open or close command in the tick that just
\* ended nor in the VALVE_MAINTENANCE_DAYS days before it
NoActuation(n) ==
    /\ tick.in.step >= VALVE_MAINTENANCE_DAYS * SecondsPerDay
    /\ tick.commands[n] = <<>>
    /\ zones[n].valve.valve_opened_at = None
          \/ co_now - zones[n].valve.valve_opened_at >= VALVE_MAINTENANCE_DAYS * SecondsPerDay
    /\ zones[n].valve.valve_closed_at = None
          \/ co_now - zones[n].valve.valve_closed_at >= VALVE_MAINTENANCE_DAYS * SecondsPerDay

\* C20: while the loop keeps ticking, a valve that got no open or close
\* actuation for at least VALVE_MAINTENANCE_DAYS days and is not pending
\* maintenance has valve_maintenance_pending set (its maintenance cycle is
\* started) by the next full tick that runs in the maintenance hour.
C20_MaintenanceScheduled ==
    (TickEnded /\ ~tick.raised /\ InMaintenanceHour) =>
        \A n \in Zones :
            (NoActuation(n) /\ ~tick.before[n].valve_maintenance_pending)
                => zones[n].valve_maintenance_pending

\* no tick ever schedules a maintenance cycle
C20_NeverScheduled == \A n \in Zones : ~zones[n].valve_maintenance_pending

\* every completed tick leaves last_valve_activity at the time of the tick
C20_ActivityRefreshed ==
    (TickEnded /\ ~tick.raised) =>
        \A n \in Zones : zones[n].valve.last_valve_activity = co_now

\* C21: whenever a zone's valve_maintenance_pending flag becomes true, set by
\* the maintenance check of a tick or by force_valve_maintenance, it
\* eventually becomes false again.  The flag is cleared by the finally of a
\* maintenance cycle and by nothing else, so at every moment at which no
\* cycle is in progress on a zone's valve, its flag is false.
C21_PendingCleared ==
    \A n \in Zones :
        maint.cycles[n] = 0 => ~zones[n].valve_maintenance_pending

\* a pending flag that is set stays set in every later step
C21_PendingNeverCleared ==
    [][\A n \in Zones : zones[n].valve_maintenance_pending
                            => zones'[n].valve_maintenance_pending]_vars

\* every force_valve_maintenance call for an existing zone raises
C21_ForceCallRaises ==
    (co_op = "force_valve_maintenance" /\ maint.zone_name \in Zones
     /\ maint.entry_loaded)
        => /\ maint.raised
           /\ zones[maint.zone_name].valve_maintenance_pending
           /\ maint.cycles[maint.zone_name] = 0

C22_NoCycleEver == \A n \in Zones : maint.cycles[n] = 0

\* C23: every change of a zone's window_open happens when the window sensor
\* has held the state of the new value (on for open) for the whole debounce
\* delay of 30 seconds, whichever of sensor events, debounce timers and full
\* ticks made it.
C23_WindowDebounced ==
    debouncer.flip.count > 0 =>
        /\ debouncer.flip.value = (debouncer.flip.state = "on")
        /\ debouncer.flip.held >= WINDOW_DEBOUNCE_DELAY

\* the changes the debounce timer makes alone wait for the delay when the
\* sensor has only the states on and off in between
C23_TimerFlipHeld ==
    (debouncer.flip.count > 0 /\ debouncer.flip.by = "timer"
        /\ debouncer.flip.state \in {"on", "off"} /\ debouncer.flip.value = (debouncer.flip.state = "on")) =>
        debouncer.flip.held >= WINDOW_DEBOUNCE_DELAY

\* a full tick changes window_open
C23_TickFlip == debouncer.flip.count > 0 /\ debouncer.flip.by = "tick"

\* the debounce timer opens the window of a zone whose sensor is not on: the
\* rescheduled change keeps the callback of the change it replaces
C23_StaleCallback ==
    /\ debouncer.flip.count > 0 /\ debouncer.flip.by = "timer"
    /\ debouncer.flip.value /\ debouncer.flip.state # "on"

\* C24: while a full tick is between its start and its end no zone's demand
\* or window_open differs from what the tick computed max_demand from, and
\* a tick that has ended decided its valves with the demands it computed
\* max_demand from.
C24_TickAtomic ==
    /\ inflight.active =>
          /\ ZoneDemands(zones) = inflight.demand
          /\ ZoneWindows(zones) = inflight.window_open
    /\ (~inflight.active /\ co_op = "tick" /\ ~tick.raised) =>
          /\ inflight.valve_demand = inflight.demand
          /\ inflight.valve_window_open = inflight.window_open

\* a tick ends that fired the burner for a zone whose valve it then left
\* closed, because a single-zone update took the demand away in between
C24_BurnerWithoutValve ==
    /\ ~inflight.active /\ co_op = "tick" /\ ~tick.raised
    /\ co.max_demand > 0 /\ co.target_flow_temp > 0
    /\ \A n \in Zones : inflight.valve_demand[n] = 0 /\ tick.commands[n] = <<>>

\* a tick that no window timer interrupts decides its valves with the
\* demands it computed max_demand from
C24_UninterruptedTick ==
    (~inflight.active /\ co_op = "tick" /\ ~tick.raised
        /\ debouncer.flip.by # "timer") =>
        inflight.valve_demand = inflight.demand

\* C25: at the end of every full tick a zone whose temperature reading is
\* null or that is disabled has demand 0, every other zone has been given a
\* PID update with its reading in that tick and has the PID output as its
\* demand, and max_demand is the maximum of the zone demands.
C25_SensorUnavailable ==
    TickEnded =>
        /\ \A n \in Zones :
              IF tick.in.temp[n] = None \/ zones[n].disabled
              THEN zones[n].demand = 0
              ELSE /\ zones[n].pid.last_time = co_now
                   /\ zones[n].pid.last_pv = tick.in.temp[n]
                   /\ zones[n].demand = zones[n].pid.last_output
        /\ co.max_demand = MaxDemand(zones)

\* a tick in which the sensor of z2, a zone that had a demand, is unavailable
\* while z1 is processed and makes max_demand
C25_Witness ==
    /\ TickEnded
    /\ tick.in.temp["z2"] = None /\ ~zones["z2"].disabled
    /\ tick.before["z2"].demand > 0
    /\ tick.in.temp["z1"] # None /\ ~zones["z1"].disabled
    /\ zones["z1"].demand > 0 /\ co.max_demand = zones["z1"].demand

\* the same with z2 disabled at setup
C25_WitnessDisabled ==
    /\ TickEnded
    /\ zones["z2"].disabled /\ tick.in.temp["z2"] # None
    /\ ~zones["z1"].disabled /\ zones["z1"].demand > 0
    /\ co.max_demand = zones["z1"].demand

\* the zone names of the config entry
ConfiguredZones == {store.config[i] : i \in 1..Len(store.config)}

\* C26: after zone initialisation every configured zone has a PID integral i
\* with |i| <= 300: 0 when the stored value is absent or beyond 300 in
\* magnitude, and the stored value otherwise.
C26_IntegralRestored ==
    co_op = "setup" =>
        \A n \in ConfiguredZones :
            /\ n \in DOMAIN zones
            /\ Abs(zones[n].pid.integral) <= MAX_REASONABLE_INTEGRAL
            /\ zones[n].pid.integral = RestoreIntegral(store.pid_integrals[n])

\* zone initialisation raises whenever a zone is configured, and adds no zone
C26_SetupRaises ==
    co_op = "setup" =>
        /\ store.raised = (store.config # <<>>)
        /\ DOMAIN zones = {}

\* the PIDController built before the exception has the integral of the rule
C26_BuiltIntegral ==
    co_op = "setup" =>
        \A n \in Zones :
            store.built[n] # None =>
                LET v == store.pid_integrals[n]
                    i == store.built[n]
                IN  /\ Abs(i) <= MAX_REASONABLE_INTEGRAL
                    /\ (v = None => i = 0)
                    /\ (v # None /\ Abs(v) > MAX_REASONABLE_INTEGRAL => i = 0)
                    /\ (v # None /\ Abs(v) <= MAX_REASONABLE_INTEGRAL => i = v)

\* the drop the claim gives zone n in the tick that has ended
ClaimedDrop(n) ==
    (IF zones[n].window_open THEN DEFAULT_WINDOW_DROP ELSE 0)
    + (IF tick.in.solar_power # None /\ tick.in.solar_power > co.solar_threshold
       THEN (IF zones[n].solar_drop # None THEN zones[n].solar_drop ELSE co.solar_drop)
       ELSE 0)

\* C27: in every full tick the PID of a zone is updated with zone.setpoint
\* minus the window drop if its window is open, minus the solar drop (the
\* zone's own if set, else the global one) if the solar power exceeds the
\* threshold, both when both apply; zone.setpoint itself is the resolved
\* setpoint, here the default setpoint.
C27_SetpointModifiers ==
    TickEnded =>
        \A n \in Zones :
            /\ zones[n].setpoint = zones[n].default_setpoint
            /\ zones[n].pid =
                  PIDUpdate(tick.before[n].pid, zones[n].setpoint - ClaimedDrop(n),
                            tick.in.temp[n], tick.in.outdoor_temp,
                            IF tick.count = 1 THEN FIRST_TICK_DT ELSE tick.in.step,
                            co_now)
            /\ zones[n].demand = zones[n].pid.last_output

\* a tick with an open window and solar power above the threshold: z1 is
\* regulated to 8.0 degrees below its setpoint of 21.0, which is unchanged
C27_Witness ==
    /\ TickEnded
    /\ zones["z1"].window_open
    /\ tick.in.solar_power = 2500
    /\ tick.in.temp["z1"] = 120
    /\ zones["z1"].setpoint = 210
    /\ zones["z1"].demand = 10

\* the same tick for z2, whose own solar drop of 1.0 degree applies
C27_WitnessZoneDrop ==
    /\ TickEnded
    /\ zones["z2"].window_open /\ zones["z2"].solar_drop = 10
    /\ tick.in.solar_power = 2500
    /\ tick.in.temp["z2"] = 120
    /\ zones["z2"].demand = 30

\* the expiry check of the tick that has ended cleared zone n's manual
\* setpoint: the zone was processed and its schedule's state differs from the
\* state recorded with the manual setpoint
ManualExpired(n) ==
    /\ ~zones[n].disabled /\ tick.in.temp[n] # None
    /\ tick.before[n].manual_setpoint # None
    /\ zones[n].has_schedule
    /\ tick.before[n].manual_setpoint_schedule_state # None
    /\ BoolValue(IsScheduleActive(tick.in.sched[n]))
           # tick.before[n].manual_setpoint_schedule_state

\* C28 as claimed: a full tick in away mode leaves every zone's
\* manual_setpoint as it was.
C28_AwayKeepsManual ==
    (TickEnded /\ co.away_mode_active) =>
        \A n \in Zones : zones[n].manual_setpoint = tick.before[n].manual_setpoint

\* C28: a full tick in away mode leaves a zone's manual_setpoint as it was,
\* unless the zone's schedule state differs from the state recorded with the
\* manual setpoint: then the expiry rule clears it, as in any other tick.
C28_AwayKeepsManualUnlessExpired ==
    (TickEnded /\ co.away_mode_active) =>
        \A n \in Zones :
            zones[n].manual_setpoint =
                IF ManualExpired(n) THEN None ELSE tick.before[n].manual_setpoint

\* a tick in away mode on a zone with a manual setpoint of 22.0 whose
\* schedule is in the recorded state: the setpoint is the away temperature
\* and the manual setpoint is still stored
C28_Witness ==
    /\ TickEnded /\ co.away_mode_active
    /\ tick.before["z1"].manual_setpoint = 220
    /\ tick.in.temp["z1"] # None
    /\ ~ManualExpired("z1")
    /\ zones["z1"].manual_setpoint = 220
    /\ zones["z1"].setpoint = zones["z1"].away_temp

\* a tick in away mode clears a manual setpoint by the expiry rule
C28_ExpiredInAway ==
    /\ TickEnded /\ co.away_mode_active
    /\ ManualExpired("z1")
    /\ zones["z1"].manual_setpoint = None

\* the integral plus error * dt of the update() call that has ended
C29_PotentialIntegral ==
    pid_call.integral_before + (pid_call.setpoint - pid_call.pv) * pid_call.dt

\* Kp * error + Ki * integral' of that call
C29_Candidate ==
    pid.kp * (pid_call.setpoint - pid_call.pv) + pid.ki * C29_PotentialIntegral

\* the condition under which the claim lets the integral be committed
C29_Commits ==
    LET error == pid_call.setpoint - pid_call.pv
    IN  /\ pid_call.dt > 0
        /\ \/ 0 < C29_Candidate /\ C29_Candidate < 100
           \/ C29_Candidate >= 100 /\ error < 0
           \/ C29_Candidate <= 0 /\ error > 0

\* C29: after an update() call the integral is integral + error * dt when
\* dt > 0 and the candidate output Kp * error + Ki * integral' is strictly
\* inside (0, 100), or at least 100 with a negative error, or at most 0 with a
\* positive error; in every other case, every call with dt <= 0 included, it
\* is the integral from before the call.
C29_IntegralCommit ==
    pid_op = "update" =>
        pid.integral = IF C29_Commits THEN C29_PotentialIntegral
                       ELSE pid_call.integral_before

\* a call that commits with the candidate at or above 100: the error is
\* negative and the integral comes down
C29_Witness ==
    /\ pid_op = "update"
    /\ pid_call.dt > 0
    /\ C29_Candidate >= 100
    /\ pid_call.setpoint - pid_call.pv < 0
    /\ pid.integral < pid_call.integral_before

\* a call with dt > 0 that leaves the integral alone: the candidate is at or
\* above 100 and the error positive
C29_WitnessRefused ==
    /\ pid_op = "update"
    /\ pid_call.dt > 0
    /\ C29_Candidate >= 100
    /\ pid_call.setpoint - pid_call.pv > 0
    /\ pid.integral = pid_call.integral_before

\* a call that commits with the candidate at or below 0 and a positive error
C29_WitnessLow ==
    /\ pid_op = "update"
    /\ pid_call.dt > 0
    /\ C29_Candidate <= 0
    /\ pid_call.setpoint - pid_call.pv > 0
    /\ pid.integral > pid_call.integral_before

\* a call with dt < 0 and an error: the integral is unchanged
C29_WitnessNegativeDt ==
    /\ pid_op = "update"
    /\ pid_call.dt < 0
    /\ pid_call.setpoint # pid_call.pv
    /\ pid.integral = pid_call.integral_before

\* the entry condition of the claim, on the controller and the arguments of
\* the calculate_target_flow_temp call that has ended
C30_EntryCondition ==
    /\ hc_call.before.heater_was_active
    /\ hc_call.flow_temp # None /\ hc_call.return_temp # None
    /\ hc_call.flow_temp >= hc_call.before.min_egress
    /\ hc_call.flow_temp - hc_call.return_temp < MIN_EFFICIENT_DELTA_T
    /\ hc_call.max_demand > 0

\* C30: a calculate_target_flow_temp call on a controller that is not in
\* cooldown puts it in cooldown exactly when the heater was last commanded
\* with a target above 0, flow_temp >= min_egress, flow_temp - return_temp <
\* MIN_EFFICIENT_DELTA_T and max_demand > 0; heater_was_active is the
\* target > 0 of the last set_flow_temperature call, so no call after a
\* heater-off command starts cooldown.
C30_CooldownEntry ==
    /\ (hc_op = "calculate" /\ ~hc_call.before.cooldown_active) =>
          /\ heater.cooldown_active = C30_EntryCondition
          /\ hc_call.cooldown_active = heater.cooldown_active
    /\ hc_op = "calculate" =>
          heater.heater_was_active = hc_call.before.heater_was_active
    /\ hc_op = "set_flow" => heater.heater_was_active = (hc_call.target > 0)
    /\ (hc_op = "init" => ~heater.heater_was_active)

\* a call that starts cooldown: the heater was commanded on, the flow is at
\* 40.0 and the return at 37.0 degrees
C30_Witness ==
    /\ hc_op = "calculate"
    /\ ~hc_call.before.cooldown_active
    /\ heater.cooldown_active
    /\ hc_call.before.heater_was_active
    /\ hc_call.flow_temp - hc_call.return_temp < MIN_EFFICIENT_DELTA_T

\* a call after a heater-off command with a low delta-T and demand: no
\* cooldown
C30_WitnessAfterOff ==
    /\ hc_op = "calculate"
    /\ ~hc_call.before.cooldown_active
    /\ ~hc_call.before.heater_was_active
    /\ hc_call.before.burner_stopped_at # None
    /\ hc_call.flow_temp = 400 /\ hc_call.return_temp = 370
    /\ hc_call.max_demand > 0
    /\ ~heater.cooldown_active

\* the reading of the call shows a recovered delta-T
C31_Recovered ==
    /\ hc_call.flow_temp # None /\ hc_call.return_temp # None
    /\ hc_call.flow_temp - hc_call.return_temp >=
          MIN_EFFICIENT_DELTA_T + hc_call.before.cooldown_hysteresis

\* C31: a calculate_target_flow_temp call on a controller in cooldown ends
\* cooldown only when flow_temp - return_temp >= MIN_EFFICIENT_DELTA_T +
\* cooldown_hysteresis; neither a change of demand nor a missing flow or
\* return reading ends it.
C31_CooldownExit ==
    (hc_op = "calculate" /\ hc_call.before.cooldown_active /\ ~heater.cooldown_active)
        => C31_Recovered

\* with both readings present the controller leaves cooldown exactly when
\* delta-T has recovered, whatever the demand
C31_ExitWithReadings ==
    (/\ hc_op = "calculate"
     /\ hc_call.before.cooldown_active
     /\ hc_call.flow_temp # None /\ hc_call.return_temp # None)
        => (heater.cooldown_active = ~C31_Recovered)

\* a call without a return reading ends cooldown
C31_MissingReadingEnds ==
    /\ hc_op = "calculate"
    /\ hc_call.before.cooldown_active
    /\ hc_call.return_temp = None
    /\ ~heater.cooldown_active
    /\ ~hc_call.cooldown_active

\* a call with demand 0 and a delta-T of 6.0 degrees stays in cooldown
C31_DemandKeeps ==
    /\ hc_op = "calculate"
    /\ hc_call.before.cooldown_active
    /\ hc_call.max_demand = 0
    /\ hc_call.flow_temp = 400 /\ hc_call.return_temp = 340
    /\ heater.cooldown_active

(***************************************************************************)
(* Warmup tracking around the target                                       *)
(***************************************************************************)

\* the last second the exploration follows
MaxReachNow == 21600

\* readings of zone z1, whose setpoint is 21.0: 19.0, 20.4, 20.7, 20.8, 21.3
ReachTemps == {190, 204, 207, 208, 213}

ReachSteps == {600, 1200}

ReachInputs ==
    {TickInput(st, None, None, "none",
               [n \in Zones |-> IF n = "z1" THEN t1 ELSE 210],
               [n \in Zones |-> FALSE], [n \in Zones |-> NoSchedule], TRUE) :
        st \in ReachSteps, t1 \in ReachTemps}

InitReach ==
    /\ InitCoOthersIdle
    /\ co = CoordinatorNew(250, 2000, 50, FALSE, 30, 0, 60)
    /\ zones = [n \in Zones |->
                  ZoneNew(210, DEFAULT_AWAY_TEMP, PIDNew(3, 0, 0, 0), FALSE, FALSE,
                          ValveNew("switch", "off"))]
    /\ InitCoCommon

TickReach ==
    \E in \in ReachInputs :
        /\ co_now + in.step <= MaxReachNow
        /\ CoTickBody(in)

NextReach == TickReach

SpecReach == InitReach /\ [][NextReach]_vars

\* zone n was tracking a warmup cycle when the last tick started, and the
\* tick had a reading for it
ReachTracking(n) ==
    /\ co_op = "tick"
    /\ tick.before[n].warmup_started_at # None
    /\ tick.in.temp[n] # None

\* target - current_temp of zone n in the last tick; the zones of SpecReach
\* have neither window nor solar drop, so the target is zone.setpoint
ReachDelta(n) == zones[n].setpoint - tick.in.temp[n]

\* what a reached cycle leaves in warmup_factor
ReachBlended(n) ==
    LET temp_rise == tick.in.temp[n] - tick.before[n].warmup_start_temp
        elapsed == co_now - tick.before[n].warmup_started_at
    IN  IF temp_rise > 5
        THEN WarmupBlend(tick.before[n].warmup_factor, MeasuredFactor(elapsed, temp_rise))
        ELSE tick.before[n].warmup_factor

\* the tick handled zone n's cycle as reached, or as not reached, when
\* within says whether it is at the target
ReachHandled(n, within) ==
    IF within
    THEN /\ zones[n].warmup_started_at = None
         /\ zones[n].warmup_start_temp = None
         /\ zones[n].warmup_factor = ReachBlended(n)
    ELSE /\ zones[n].warmup_factor = tick.before[n].warmup_factor
         /\ (zones[n].warmup_started_at = None) = (zones[n].demand < 5)

\* C32: while a warmup cycle is tracked, a tick treats it as reached
\* (tracking reset, warmup_factor blended only if temp_rise > 0.5) exactly
\* when |target - current_temp| <= 0.2; more than 0.2 above or below the
\* target the cycle is not reached and warmup_factor is unchanged.
C32_WarmupReached ==
    \A n \in Zones :
        ReachTracking(n) => ReachHandled(n, Abs(ReachDelta(n)) <= 2)

\* what the ticks do: the cycle is reached when target - current_temp <= 0.2,
\* any temperature above the target included
C32_ReachedOneSided ==
    \A n \in Zones :
        ReachTracking(n) => ReachHandled(n, ReachDelta(n) <= 2)

\* a cycle started at 19.0 is ended and blended by a reading of 21.3, 0.3
\* above the target
C32_Overshoot ==
    /\ ReachTracking("z1")
    /\ tick.before["z1"].warmup_start_temp = 190
    /\ tick.in.temp["z1"] = 213
    /\ zones["z1"].warmup_factor # tick.before["z1"].warmup_factor
    /\ zones["z1"].warmup_started_at = None

\* a cycle started at 20.4 is ended by a reading of 20.8 without a change of
\* the factor, and a reading of 20.7 keeps the cycle open
C32_SmallRise ==
    /\ ReachTracking("z1")
    /\ tick.before["z1"].warmup_start_temp = 204
    /\ tick.in.temp["z1"] = 208
    /\ zones["z1"].warmup_factor = tick.before["z1"].warmup_factor
    /\ zones["z1"].warmup_started_at = None

C32_StillTracking ==
    /\ ReachTracking("z1")
    /\ tick.in.temp["z1"] = 207
    /\ zones["z1"].warmup_started_at = tick.before["z1"].warmup_started_at

(***************************************************************************)
(* The climate entity's HVAC mode                                          *)
(***************************************************************************)

\* the last second the exploration follows
MaxModeNow == 18090

HVACModes == {"heat", "off"}

\* EmsZoneClimate.async_set_hvac_mode up to its request of a refresh
SetHvacMode(z, hvac_mode) ==
    IF hvac_mode = "off"
    THEN [z EXCEPT !.demand = 0, !.pid = PIDReset(@)]
    ELSE z

ModeInputs ==
    {TickInput(30, None, None, "none", [n \in Zones |-> t], [n \in Zones |-> FALSE],
               [n \in Zones |-> NoSchedule], TRUE) : t \in {190, 215}}

InitMode ==
    /\ InitCoOthersIdleButExt
    /\ maint = NotInstantiated
    /\ debouncer = NotInstantiated
    /\ inflight = NotInstantiated
    /\ store = NotInstantiated
    /\ hvac_request = [mode |-> [n \in Zones |-> "heat"], zone |-> None]
    /\ dt_log = NotInstantiated
    /\ co = CoordinatorNew(250, 2000, 50, FALSE, 30, 0, 60)
    /\ zones = [n \in Zones |->
                  ZoneNew(210, DEFAULT_AWAY_TEMP, PIDNew(3, 1, 0, 0), FALSE, FALSE,
                          ValveNew("switch", "off"))]
    /\ InitCoCommon

\* a full tick, also the one the refresh request of the climate entity starts
TickMode ==
    \E in \in ModeInputs :
        /\ co_now + in.step <= MaxModeNow
        /\ CoTickBody(in)

\* the climate.set_hvac_mode service on the entity of zone n
SetHvacModeCall ==
    \E n \in Zones, hvac_mode \in HVACModes :
        /\ co_op # "set_hvac_mode"
        /\ zones' = [zones EXCEPT ![n] = SetHvacMode(@, hvac_mode)]
        /\ hvac_request' = [mode |-> [hvac_request.mode EXCEPT ![n] = hvac_mode],
                            zone |-> n]
        /\ co_op' = "set_hvac_mode"
        /\ UNCHANGED <<co, co_now, tick, heater, vmgr, NotCoVars,
                       maint, debouncer, inflight, store, dt_log>>

NextMode == TickMode \/ SetHvacModeCall

SpecMode == InitMode /\ [][NextMode]_vars

\* C33: from the call that sets a zone's HVAC mode to OFF on, the zone's
\* demand is 0 after the call and after every full tick until the mode is
\* set back to HEAT.
C33_OffKeepsDemandZero ==
    \A n \in Zones :
        (co_op \in {"tick", "set_hvac_mode"} /\ hvac_request.mode[n] = "off")
            => zones[n].demand = 0

\* the OFF call itself sets the demand to 0 and resets the PID controller,
\* and leaves the zone enabled
C33_OffCallResets ==
    \A n \in Zones :
        (co_op = "set_hvac_mode" /\ hvac_request.zone = n /\ hvac_request.mode[n] = "off")
            => /\ zones[n].demand = 0
               /\ zones[n].pid.integral = 0
               /\ zones[n].pid.last_pv = None
               /\ zones[n].pid.last_time = None
               /\ ~zones[n].disabled

\* a full tick after the OFF call gives the zone a demand again
C33_DemandAfterOff ==
    /\ co_op = "tick"
    /\ hvac_request.mode["z1"] = "off"
    /\ zones["z1"].demand > 0
    /\ tick.in.temp["z1"] = 190

\* an OFF call on a zone that had a demand
C33_OffCalled ==
    /\ co_op = "set_hvac_mode"
    /\ hvac_request.zone = "z1" /\ hvac_request.mode["z1"] = "off"
    /\ tick.count > 0
    /\ tick.in.temp["z1"] = 190
    /\ zones["z1"].demand = 0

(***************************************************************************)
(* SpecManual: zone z1 follows a schedule whose state differs at every     *)
(* tick from the state at the tick before; its manual setpoint is restored *)
(* from the store at startup or set through the climate entity.            *)
(***************************************************************************)

\* the last second the exploration follows
MaxManualNow == 28800

\* seconds between two ticks of the exploration: every 60th periodic tick
ManualStep == COORDINATOR_UPDATE_INTERVAL * 60

\* the schedule entity of z1 at a tick: on or off
ManualSchedules == {SchedMorning, SchedOff}

ManualInputs ==
    {TickInput(ManualStep, None, None, "none", [n \in Zones |-> 200],
               [n \in Zones |-> FALSE],
               [n \in Zones |-> IF n = "z1" THEN s1 ELSE NoSchedule], TRUE) :
        s1 \in ManualSchedules}

\* the store file at startup: a manual setpoint of 22.0 for z1, or none
ManualStore(stored_manual) ==
    [pid_integrals |-> [n \in Zones |-> None],
     warmup_factors |-> [n \in Zones |-> None],
     manual_setpoints |-> [n \in Zones |-> IF n = "z1" THEN stored_manual ELSE None],
     config |-> ZoneOrder, raised |-> FALSE, built |-> [n \in Zones |-> None]]

\* the zones as _init_zones builds them from the store, z1 with a schedule
\* reader
InitManual ==
    /\ InitCoOthersIdleButExt
    /\ InitAuxIdle
    /\ maint = NotInstantiated
    /\ debouncer = NotInstantiated
    /\ inflight = NotInstantiated
    /\ \E stored_manual \in {None, 220} : store = ManualStore(stored_manual)
    /\ co = CoordinatorNew(250, 2000, 50, FALSE, 30, 0, 60)
    /\ zones = [n \in Zones |-> [InitZone(store, n) EXCEPT !.has_schedule = (n = "z1")]]
    /\ InitCoCommon

\* a full tick with a reading of 20.0; the schedule has changed its state
\* since the tick before
TickManual ==
    \E in \in ManualInputs :
        /\ co_now + in.step <= MaxManualNow
        /\ tick.count > 0 => in.sched["z1"].state # tick.in.sched["z1"].state
        /\ CoTickCore(in)
        /\ UNCHANGED extVars

\* climate.set_temperature on the entity of z1, while the schedule is in
\* either state, early enough for two more ticks to follow
SetTemperatureManual ==
    \E s \in ManualSchedules :
        /\ co_now + 2 * ManualStep <= MaxManualNow
        /\ CoSetTemperature("z1", 220, s)

NextManual == TickManual \/ SetTemperatureManual

SpecManual == InitManual /\ [][NextManual]_vars

\* C34: for a zone with a schedule reader a non-null manual_setpoint, set
\* through the climate entity or restored from the store at startup, is
\* eventually cleared while full ticks keep running with a valid reading and
\* the schedule keeps alternating: it is gone at the end of six ticks with
\* alternating schedule states, the last two of them after the last
\* set_temperature call.
C34_ManualClearedByEnd ==
    (co_now = MaxManualNow /\ zones["z1"].has_schedule)
        => zones["z1"].manual_setpoint = None

\* the same for the runs that start without a stored manual setpoint
C34_SetClearedByEnd ==
    (co_now = MaxManualNow /\ store.manual_setpoints["z1"] = None)
        => zones["z1"].manual_setpoint = None

\* a manual setpoint set through the climate entity and cleared by a tick
C34_SetCleared ==
    /\ co_op = "tick"
    /\ store.manual_setpoints["z1"] = None
    /\ tick.before["z1"].manual_setpoint = 220
    /\ zones["z1"].manual_setpoint = None

\* a manual setpoint without the schedule state of its setting, as a
\* restored one is, is left in place by every tick
C34_RestoredStays ==
    [][(/\ zones["z1"].manual_setpoint # None
        /\ zones["z1"].manual_setpoint_schedule_state = None
        /\ tick'.count = tick.count + 1)
           => /\ zones'["z1"].manual_setpoint = zones["z1"].manual_setpoint
              /\ zones'["z1"].manual_setpoint_schedule_state = None]_vars

\* the restored manual setpoint after ticks at which the schedule was on,
\* off, on, ... up to the last tick
C34_RestoredAtEnd ==
    /\ co_now = MaxManualNow
    /\ tick.count = 6
    /\ zones["z1"].manual_setpoint = 220
    /\ zones["z1"].manual_setpoint_schedule_state = None
    /\ zones["z1"].setpoint = 220

(***************************************************************************)
(* SpecCycle: one switch valve of a ValveManager.  The control tick calls  *)
(* set_valve_state every 30 seconds; a maintenance cycle                   *)
(* (perform_maintenance, awaited by _perform_valve_maintenance) may start  *)
(* between two ticks and sleeps while ticks go on.                         *)
(***************************************************************************)

\* const.py: seconds a maintenance cycle keeps the valve open
VALVE_MAINTENANCE_DURATION == 30

\* the last second the exploration follows
MaxCycleNow == 480

\* no maintenance cycle in progress, none finished
NoCycle ==
    [phase |-> "idle", started |-> None, was_on |-> FALSE, state_at_off |-> "off",
     opened_at |-> None, closed_at |-> None]

\* perform_maintenance on a switch, up to asyncio.sleep(duration)
PerformMaintenanceBegin(v, ok) ==
    [v EXCEPT !.state = ServiceCall(@, "switch.turn_on", ok)]

\* perform_maintenance from the end of the sleep, and the assignment of its
\* result in _perform_valve_maintenance; started is the now of its entry
PerformMaintenanceEnd(v, started, ok) ==
    [v EXCEPT !.state = ServiceCall(@, "switch.turn_off", ok),
              !.last_valve_activity = started]

InitCycle ==
    /\ InitPIDIdle
    /\ InitHeaterIdle
    /\ InitCoIdle
    /\ InitSRIdle
    /\ InitAuxIdle
    /\ debouncer = NotInstantiated
    /\ inflight = NotInstantiated
    /\ store = NotInstantiated
    /\ maint = NoCycle
    /\ vmgr = ValveManagerNew(DEFAULT_VALVE_MIN_ON_TIME, DEFAULT_VALVE_MIN_OFF_TIME)
    /\ valve = ValveNew("switch", "off")
    /\ vm_now = 0
    /\ vm_op = "init"
    /\ vm_call = NoValveCall

\* the control tick, COORDINATOR_UPDATE_INTERVAL after the one before: it
\* calls set_valve_state for the zone and stores the returned timestamps
CycleTick ==
    \E should_open \in BOOLEAN :
        LET now == vm_now + COORDINATOR_UPDATE_INTERVAL
            r == SetValveState(vmgr, valve, should_open, FALSE, now, TRUE)
        IN  /\ now <= MaxCycleNow
            /\ maint.phase = "sleeping" => now <= maint.started + VALVE_MAINTENANCE_DURATION
            /\ vm_op \in {"init", "set_valve_state", "maintenance_begin"}
               \/ maint.phase = "idle"
            /\ valve' = r.valve
            /\ vm_now' = now
            /\ vm_op' = "set_valve_state"
            /\ vm_call' = [before |-> valve, should_open |-> should_open,
                           cooldown_active |-> FALSE, now |-> now,
                           commands |-> r.commands]
            /\ UNCHANGED <<vmgr, NotValveVars>>

\* a maintenance cycle starts right after a tick: turn_on, then the sleep
CycleBegin ==
    /\ maint.phase = "idle"
    /\ vm_op = "set_valve_state"
    /\ vm_now + VALVE_MAINTENANCE_DURATION <= MaxCycleNow
    /\ valve' = PerformMaintenanceBegin(valve, TRUE)
    /\ maint' = [NoCycle EXCEPT !.phase = "sleeping", !.started = vm_now,
                                !.was_on = (valve.state = "on")]
    /\ vm_op' = "maintenance_begin"
    /\ UNCHANGED <<vmgr, vm_now, vm_call, pidVars, heaterVars, coVars, pid_twin,
                   srVars, debouncer, inflight, store, auxVars>>

\* the sleep of the cycle is over: turn_off and the bookkeeping
CycleEnd ==
    /\ maint.phase = "sleeping"
    /\ vm_now = maint.started + VALVE_MAINTENANCE_DURATION
    /\ valve' = PerformMaintenanceEnd(valve, maint.started, TRUE)
    /\ maint' = [maint EXCEPT !.phase = "idle", !.state_at_off = valve.state,
                              !.opened_at = valve.valve_opened_at,
                              !.closed_at = valve.valve_closed_at]
    /\ vm_op' = "maintenance_end"
    /\ UNCHANGED <<vmgr, vm_now, vm_call, pidVars, heaterVars, coVars, pid_twin,
                   srVars, debouncer, inflight, store, auxVars>>

NextCycle == CycleTick \/ CycleBegin \/ CycleEnd

SpecCycle == InitCycle /\ [][NextCycle]_vars

\* the close command of the last tick came before min_on_time had elapsed
\* since the tick's opening of the valve
CycleTickClosedEarly ==
    /\ vm_op = "set_valve_state"
    /\ vm_call.commands = <<"switch.turn_off">>
    /\ vm_call.before.valve_opened_at # None
    /\ vm_call.now - vm_call.before.valve_opened_at < vmgr.min_on_time * 60

\* the turn_off of the maintenance cycle that has just ended reached a valve
\* that a tick had opened, that was still open, and whose min_on_time had
\* not elapsed
CycleMaintenanceClosedEarly ==
    /\ vm_op = "maintenance_end"
    /\ maint.was_on
    /\ maint.state_at_off = "on"
    /\ maint.opened_at # None
    /\ maint.closed_at = None \/ maint.closed_at < maint.opened_at
    /\ vm_now - maint.opened_at < vmgr.min_on_time * 60

\* C35: under any interleaving of control ticks and maintenance cycles on a
\* zone, a valve opened by the control tick receives no close command, from
\* the tick or from the maintenance cycle, before min_on_time has elapsed
\* since that opening.
C35_MinOnTimeUnderMaintenance ==
    ~CycleTickClosedEarly /\ ~CycleMaintenanceClosedEarly

\* the control tick on its own keeps the minimum on-time, also while a
\* maintenance cycle sleeps
C35_TickKeepsMinOnTime == ~CycleTickClosedEarly

\* a valve opened by the tick at 0:30 is closed by the maintenance cycle at
\* 1:00; the manager's valve_opened_at still says 0:30
C35_ClosedByMaintenance ==
    /\ CycleMaintenanceClosedEarly
    /\ maint.opened_at = 30
    /\ vm_now = 60
    /\ valve.state = "off"
    /\ valve.valve_opened_at = 30

(***************************************************************************)
(* SpecDt: the coordinator of SpecWindow with full ticks every             *)
(* COORDINATOR_UPDATE_INTERVAL seconds.  The window sensor of zone z2      *)
(* changes state and its debounce timer fires between the ticks or at the  *)
(* instant of one, before or after it.  dt_log records, per zone, the time *)
(* of the first and of the last PIDController.update call and the sum of   *)
(* the dt values passed to the calls after the first.                      *)
(***************************************************************************)

\* the last second the exploration follows: 05:02:00
MaxDtNow == 18120

\* seconds between a sensor event and the operation before it
DtSteps == {0, 10, 20}

\* no PIDController.update call yet
NoDtLog == [first |-> None, last |-> None, total |-> 0, events |-> 0, dt |-> 0]

\* the log after one more call with dt at the time now, when one was made
LogDt(l, called, dt, now, event) ==
    IF ~called THEN l
    ELSE IF l.first = None
    THEN [first |-> now, last |-> now, total |-> 0,
          events |-> IF event THEN 1 ELSE 0, dt |-> dt]
    ELSE [first |-> l.first, last |-> now, total |-> l.total + dt,
          events |-> l.events + (IF event THEN 1 ELSE 0), dt |-> dt]

\* the time of the next full tick
NextTickAt == IF co.last_update = None THEN co_now + COORDINATOR_UPDATE_INTERVAL
              ELSE co.last_update + COORDINATOR_UPDATE_INTERVAL

InitDt ==
    /\ InitCoOthersIdleButExt
    /\ maint = NotInstantiated
    /\ inflight = NotInstantiated
    /\ store = NotInstantiated
    /\ hvac_request = NotInstantiated
    /\ dt_log = [n \in Zones |-> NoDtLog]
    /\ debouncer = DebouncerNew("off", 18000 - 3600)
    /\ co = CoordinatorNew(250, 2000, 50, FALSE, 30, 0, 60)
    /\ zones = [n \in Zones |->
                  ZoneNew(210, DEFAULT_AWAY_TEMP, PIDNew(3, 1, 0, 0), n = WinZone, FALSE,
                          ValveNew("switch", "off"))]
    /\ InitCoCommon

\* the window sensor takes another state and the listener runs
DtSensorEvent ==
    \E st \in DtSteps, s \in SensorStates \ {debouncer.state} :
        LET now == co_now + st
        IN  /\ now <= NextTickAt
            /\ now <= MaxDtNow
            /\ NoTimerBefore(now)
            /\ debouncer' = StateListener([debouncer EXCEPT !.state = s, !.since = now], now)
            /\ co_now' = now
            /\ co_op' = "window_event"
            /\ UNCHANGED <<co, zones, tick, heater, vmgr, NotCoVars, maint, inflight,
                           store, auxVars>>

\* the debounce timer fires: _confirm_callback, and _on_window_change with
\* its _update_single_zone when the change is confirmed
DtTimerFire ==
    /\ debouncer.pending # NoPending
    /\ LET now == debouncer.pending.due
           r == ConfirmCallback(debouncer, now)
           z == zones[WinZone]
           called == /\ r.confirmed
                     /\ z.window_open # (r.state = "on")
                     /\ ~z.disabled
                     /\ z.current_temp # None
       IN  /\ now <= NextTickAt
           /\ now <= MaxDtNow
           /\ zones' = [zones EXCEPT ![WinZone] =
                           IF r.confirmed THEN OnWindowChange(co, z, r.state, now) ELSE z]
           /\ dt_log' = [dt_log EXCEPT ![WinZone] =
                            LogDt(@, called, SingleZoneDt(co, now), now, TRUE)]
           /\ debouncer' = r.d
           /\ co_now' = now
           /\ co_op' = "window_timer"
    /\ UNCHANGED <<co, tick, heater, vmgr, NotCoVars, maint, inflight, store,
                   hvac_request>>

\* the full tick that is due, which reads the window sensor
DtTick ==
    LET now == NextTickAt
        in == TickInput(now - co_now, None, None, "none", [n \in Zones |-> 205],
                        [n \in Zones |-> n = WinZone /\ debouncer.state = "on"],
                        [n \in Zones |-> NoSchedule], TRUE)
    IN  /\ now <= MaxDtNow
        /\ NoTimerBefore(now)
        /\ CoTickCore(in)
        /\ dt_log' = [n \in Zones |->
                        LogDt(dt_log[n],
                              ~zones[n].disabled /\ in.temp[n] # None,
                              FullTickDt(co, now), now, FALSE)]
        /\ UNCHANGED <<maint, debouncer, inflight, store, hvac_request>>

NextDt == DtSensorEvent \/ DtTimerFire \/ DtTick

SpecDt == InitDt /\ [][NextDt]_vars

\* C36: for each zone, over any interleaving of full ticks and event-driven
\* single-zone updates, the dt values passed to the PID update calls after
\* the first add up to no more than the time between the first and the last
\* call: no interval of time is integrated twice.
C36_NoIntervalTwice ==
    \A n \in Zones :
        dt_log[n].first # None => dt_log[n].total <= dt_log[n].last - dt_log[n].first

\* full ticks on their own integrate every interval once: for a zone without
\* event-driven updates the dt values add up to the time elapsed
C36_TicksAloneExact ==
    \A n \in Zones :
        (dt_log[n].first # None /\ dt_log[n].events = 0)
            => dt_log[n].total = dt_log[n].last - dt_log[n].first

\* every logged call is the last update of the zone's PID controller
C36_LogFollowsPid ==
    \A n \in Zones :
        dt_log[n].first # None => zones[n].pid.last_time = dt_log[n].last

\* the tick at 05:00:30 is the first call for z2; an event-driven update at
\* 05:01:00 is passed the 30 seconds since that tick, and the tick of
\* 05:01:00 that follows it is passed the same 30 seconds again
C36_SameIntervalTwice ==
    /\ co_op = "tick"
    /\ co_now = 18060
    /\ dt_log[WinZone] = [first |-> 18030, last |-> 18060, total |-> 60,
                          events |-> 1, dt |-> 30]
    /\ dt_log["z1"].total = 30

\* an event-driven update 10 seconds after a tick is passed 10 seconds, and
\* the next tick the whole 30 seconds since the tick before
C36_PartTwice ==
    /\ co_op = "tick"
    /\ dt_log[WinZone].events = 1
    /\ dt_log[WinZone].dt = 30
    /\ dt_log[WinZone].total = dt_log[WinZone].last - dt_log[WinZone].first + 10

(***************************************************************************)
(* SpecLower: warmup tracking of zone z1, which has a window sensor.  The  *)
(* window drop lowers the effective setpoint of a tick while a warmup      *)
(* cycle is tracked.                                                       *)
(***************************************************************************)

\* the last second the exploration follows
MaxLowerNow == 20400

\* readings of zone z1, whose setpoint is 21.0: 19.0, 19.6, 20.2, 20.9
LowerTemps == {190, 196, 202, 209}

LowerInputs ==
    {TickInput(600, None, None, "none",
               [n \in Zones |-> IF n = "z1" THEN t1 ELSE 210],
               [n \in Zones |-> n = "z1" /\ w], [n \in Zones |-> NoSchedule], TRUE) :
        t1 \in LowerTemps, w \in BOOLEAN}

InitLower ==
    /\ InitCoOthersIdle
    /\ co = CoordinatorNew(250, 2000, 50, FALSE, 30, 0, 60)
    /\ zones = [n \in Zones |->
                  ZoneNew(210, DEFAULT_AWAY_TEMP, PIDNew(3, 0, 0, 0), n = "z1", FALSE,
                          ValveNew("switch", "off"))]
    /\ InitCoCommon

TickLower ==
    \E in \in LowerInputs :
        /\ co_now + in.step <= MaxLowerNow
        /\ CoTickBody(in)

NextLower == TickLower

SpecLower == InitLower /\ [][NextLower]_vars

\* the last tick changed the warmup_factor of zone n
FactorChanged(n) ==
    /\ co_op = "tick"
    /\ zones[n].warmup_factor # tick.before[n].warmup_factor

\* the setpoint the last tick regulated zone n to: zone.setpoint less the
\* window drop (the zones of SpecLower have no solar drop)
LowerEffective(n) ==
    IF zones[n].window_open THEN zones[n].setpoint - DEFAULT_WINDOW_DROP
    ELSE zones[n].setpoint

\* C37: warmup_factor is modified only by a tick that started with a warmup
\* cycle being tracked and whose reading has come within 0.2 degrees of the
\* target recorded when tracking started (warmup_target_temp), i.e. is no
\* more than 0.2 below it; a tick whose effective setpoint was lowered while
\* tracking does not update warmup_factor on that account.
C37_FactorOnlyAtRecordedTarget ==
    \A n \in Zones :
        FactorChanged(n) =>
            /\ tick.before[n].warmup_started_at # None
            /\ tick.before[n].warmup_target_temp # None
            /\ tick.before[n].warmup_target_temp - tick.in.temp[n] <= 2

\* what the code keeps: warmup_factor is modified only by a tick that
\* started with a cycle being tracked and whose reading is no more than 0.2
\* below the effective setpoint of that tick, after a rise of more than 0.5
C37_FactorAtEffectiveSetpoint ==
    \A n \in Zones :
        FactorChanged(n) =>
            /\ tick.before[n].warmup_started_at # None
            /\ LowerEffective(n) - tick.in.temp[n] <= 2
            /\ tick.in.temp[n] - tick.before[n].warmup_start_temp > 5
            /\ zones[n].warmup_factor = ReachBlended(n)
            /\ zones[n].warmup_started_at = None
            /\ zones[n].warmup_target_temp = None

\* a cycle that started at 19.0 with target 21.0: ten minutes later the
\* window is open and the reading is 19.6, which is 1.4 below the recorded
\* target, and warmup_factor is blended with 10 min / 0.6 degrees
C37_WindowUpdates ==
    /\ FactorChanged("z1")
    /\ tick.before["z1"].warmup_target_temp = 210
    /\ tick.before["z1"].warmup_start_temp = 190
    /\ tick.in.temp["z1"] = 196
    /\ zones["z1"].window_open
    /\ zones["z1"].setpoint = 210
    /\ co_now - tick.before["z1"].warmup_started_at = 600
    /\ zones["z1"].warmup_factor < INITIAL_WARMUP_GUESS

\* with the window closed, the same reading leaves the cycle tracked and
\* warmup_factor unchanged
C37_ClosedKeepsTracking ==
    /\ co_op = "tick"
    /\ tick.before["z1"].warmup_target_temp = 210
    /\ tick.in.temp["z1"] = 196
    /\ ~zones["z1"].window_open
    /\ zones["z1"].warmup_started_at = tick.before["z1"].warmup_started_at
    /\ zones["z1"].warmup_target_temp = 210
    /\ zones["z1"].warmup_factor = tick.before["z1"].warmup_factor

(***************************************************************************)
(* SpecFire: full ticks of a coordinator whose switch valves are open or   *)
(* closed when the integration starts, as the valve entities report.       *)
(***************************************************************************)

\* number of full ticks the exploration follows
MaxFireTicks == 3

\* seconds between two ticks: the update interval, and a pause of the
\* length of the valves' minimum off-time
FireSteps == {COORDINATOR_UPDATE_INTERVAL, DEFAULT_VALVE_MIN_OFF_TIME * 60}

\* readings of the zones, whose setpoint is 21.0: 19.0 and 21.0
FireTemps == {190, 210}

FireInputs ==
    {TickInput(st, None, None, "none", [n \in Zones |-> t[n]],
               [n \in Zones |-> FALSE], [n \in Zones |-> NoSchedule], TRUE) :
        st \in FireSteps, t \in [Zones -> FireTemps]}

InitFire ==
    /\ InitCoOthersIdle
    /\ co = CoordinatorNew(250, 2000, 50, FALSE, 30, 0, 60)
    /\ \E s \in [Zones -> {"on", "off"}] :
          zones = [n \in Zones |->
                     ZoneNew(210, DEFAULT_AWAY_TEMP, PIDNew(3, 0, 0, 0), FALSE, FALSE,
                             ValveNew("switch", s[n]))]
    /\ InitCoCommon

TickFire ==
    \E in \in FireInputs :
        /\ tick.count < MaxFireTicks
        /\ CoTickBody(in)

NextFire == TickFire

SpecFire == InitFire /\ [][NextFire]_vars

\* the last full tick commanded the heater a non-zero flow temperature
FireCommanded ==
    /\ co_op = "tick"
    /\ ~tick.raised
    /\ co.target_flow_temp > 0

\* the valve of zone n is open at the end of the last tick, or the tick
\* commanded it open
OpenOrCommanded(n) ==
    \/ zones[n].valve.state \in {"on", "heat"}
    \/ tick.commands[n] \in {<<"switch.turn_on">>, <<"climate.set_hvac_mode.heat">>}

\* the last tick left the valve of zone n closed because its minimum
\* off-time had not elapsed
HeldClosed(n) ==
    /\ zones[n].valve.state = "off"
    /\ tick.commands[n] = <<>>
    /\ zones[n].valve.valve_closed_at # None
    /\ co_now - zones[n].valve.valve_closed_at < vmgr.min_off_time * 60

\* C38: the boiler never fires against closed valves: at the end of every
\* full tick that commanded a non-zero target flow temperature, at least
\* one zone valve is open or was commanded open during that tick.
C38_NeverAgainstClosedValves ==
    FireCommanded => \E n \in Zones : OpenOrCommanded(n)

\* every zone that has demand in a tick that fires the boiler has its valve
\* open or commanded open, unless the minimum off-time holds it closed
C38_ClosedOnlyByMinOffTime ==
    FireCommanded =>
        /\ \E n \in Zones : zones[n].demand >= heater.min_ignition_level
        /\ \A n \in Zones : zones[n].demand > 0 => OpenOrCommanded(n) \/ HeldClosed(n)

\* the valve of z1 was open at startup; the tick at 05:00:30 closed it at
\* demand 0; the tick at 05:01:00 has demand 60 in z1 alone, fires the
\* boiler and leaves both valves closed
C38_FiresAgainstClosed ==
    /\ FireCommanded
    /\ co_now = 18060
    /\ zones["z1"].demand = 60 /\ zones["z2"].demand = 0
    /\ HeldClosed("z1")
    /\ zones["z1"].valve.valve_closed_at = 18030
    /\ zones["z2"].valve.state = "off"
    /\ heater.burner_started_at = 18060

\* the same after the minimum off-time: the valve is commanded open
C38_OpensAfterMinOffTime ==
    /\ FireCommanded
    /\ zones["z1"].valve.valve_closed_at # None
    /\ co_now - zones["z1"].valve.valve_closed_at >= vmgr.min_off_time * 60
    /\ tick.commands["z1"] = <<"switch.turn_on">>

(***************************************************************************)
(* SpecDebounce: a StateDebouncer that tracks one entity with the delay of *)
(* the window sensors.  The entity changes state and the debounce timer    *)
(* fires when it is due.  debouncer.confirmed records the last on_confirmed *)
(* invocation: the value it carried, the state the entity held then, and   *)
(* the same of the invocation before it.                                   *)
(***************************************************************************)

\* the last second the exploration follows
MaxDebounceNow == 120

\* seconds between a state event and the operation before it
DebounceSteps == {10, 20, 30}

\* no on_confirmed invocation yet
NoConfirmed == [count |-> 0, state |-> "", entity_state |-> "", prev |-> "",
                prev_entity_state |-> "", rescheduled |-> FALSE]

InitDebounce ==
    /\ InitPIDIdle
    /\ InitHeaterIdle
    /\ InitValveIdle
    /\ InitSRIdle
    /\ InitCoIdle
    /\ InitAuxIdle
    /\ maint = NotInstantiated
    /\ inflight = NotInstantiated
    /\ store = NotInstantiated
    /\ debouncer = [state |-> "off", since |-> 0, prev_state |-> "off",
                    pending |-> NoPending, flip |-> NoFlip,
                    confirmed |-> NoConfirmed]

\* the entity takes another state and _state_listener runs
DebounceStateEvent ==
    \E st \in DebounceSteps, s \in SensorStates \ {debouncer.state} :
        LET now == co_now + st
        IN  /\ now <= MaxDebounceNow
            /\ NoTimerBefore(now)
            /\ debouncer' = StateListener([debouncer EXCEPT !.state = s, !.since = now], now)
            /\ co_now' = now
            /\ co_op' = "state_event"
            /\ UNCHANGED <<co, zones, tick, heaterVars, valveVars, pidVars, pid_twin,
                           srVars, maint, inflight, store, auxVars>>

\* the debounce timer fires and _confirm_callback runs: it invokes the
\* callback of the pending change, or reschedules
DebounceTimerFire ==
    /\ debouncer.pending # NoPending
    /\ LET now == debouncer.pending.due
           r == ConfirmCallback(debouncer, now)
       IN  /\ now <= MaxDebounceNow
           /\ debouncer' =
                 IF r.confirmed
                 THEN [r.d EXCEPT !.confirmed =
                          [count |-> @.count + 1, state |-> r.state,
                           entity_state |-> debouncer.state, prev |-> @.state,
                           prev_entity_state |-> @.entity_state,
                           rescheduled |->
                               debouncer.pending.new_state # debouncer.pending.cb_state]]
                 ELSE r.d
           /\ co_now' = now
           /\ co_op' = "timer"
    /\ UNCHANGED <<co, zones, tick, heaterVars, valveVars, pidVars, pid_twin,
                   srVars, maint, inflight, store, auxVars>>

NextDebounce == DebounceStateEvent \/ DebounceTimerFire

SpecDebounce == InitDebounce /\ [][NextDebounce]_vars

\* C39: whenever the debouncer invokes on_confirmed(s), s is the state the
\* entity holds at that moment, for any sequence of state events over the
\* values on, off and unavailable.
C39_ConfirmedIsCurrent ==
    debouncer.confirmed.count > 0 =>
        debouncer.confirmed.state = debouncer.confirmed.entity_state

\* what the code keeps: the state recorded as previous by a confirmation is
\* the state the entity holds, and the value passed to on_confirmed differs
\* from it only for a change that _confirm_callback had rescheduled
C39_StaleOnlyRescheduled ==
    /\ (co_op = "timer" /\ debouncer.pending = NoPending) =>
          debouncer.prev_state = debouncer.state
    /\ (debouncer.confirmed.count > 0 /\ ~debouncer.confirmed.rescheduled) =>
          debouncer.confirmed.state = debouncer.confirmed.entity_state

\* off -> on at 0:10, on -> unavailable at 0:20: the timer of 0:40
\* reschedules, the timer of 1:10 invokes on_confirmed("on") while the
\* entity is unavailable
C39_OnWhileUnavailable ==
    /\ co_op = "timer"
    /\ co_now = 70
    /\ debouncer.confirmed = [count |-> 1, state |-> "on",
                              entity_state |-> "unavailable", prev |-> "",
                              prev_entity_state |-> "", rescheduled |-> TRUE]
    /\ debouncer.state = "unavailable"
    /\ debouncer.prev_state = "unavailable"

\* C40: the debouncer confirms each state change at most once: two
\* consecutive on_confirmed invocations never carry the same state value.
C40_ConfirmedOnce ==
    debouncer.confirmed.count >= 2 =>
        debouncer.confirmed.state # debouncer.confirmed.prev

\* two consecutive invocations that both carried the state the entity held
\* carry different values
C40_CurrentValuesAlternate ==
    (/\ debouncer.confirmed.count >= 2
     /\ debouncer.confirmed.state = debouncer.confirmed.entity_state
     /\ debouncer.confirmed.prev = debouncer.confirmed.prev_entity_state) =>
        debouncer.confirmed.state # debouncer.confirmed.prev

\* after on_confirmed("on") for an unavailable entity at 1:10 the entity
\* turns on at 1:20, and the timer of 1:50 invokes on_confirmed("on") again
C40_OnTwice ==
    /\ co_op = "timer"
    /\ co_now = 110
    /\ debouncer.confirmed = [count |-> 2, state |-> "on", entity_state |-> "on",
                              prev |-> "on", prev_entity_state |-> "unavailable",
                              rescheduled |-> FALSE]

====
